---- MODULE Spec2Model ----
(***************************************************************************)
(* Model of src/c.py, of the device control of src/b.py and of the batch   *)
(* analysis of src/e.py: the scenario generator (GPTScenarioGenerator),    *)
(* the interaction simulator (AIBrowserAutomation.execute_ai_scenario and  *)
(* the methods it calls) and the cycle controller                          *)
(* (AdvancedAutomationController).                                         *)
(*                                                                         *)
(* The specifications share the variables:                                 *)
(*   SpecSim  one execute_ai_scenario run after another, statement group   *)
(*            by statement group (sim_pc);                                 *)
(*   Spec     the controller: single_ai_cycle, repeat_ai_cycles and        *)
(*            continuous_ai_mode called from main's menu loop (pc), with   *)
(*            execute_ai_scenario as one step;                             *)
(*   SpecCalls  the same controller without KeyboardInterrupts, for a      *)
(*            user who starts one operation more from the menu;            *)
(*   SpecType one human_type call, keystroke by keystroke, for every text  *)
(*            and every choice of typos.                                   *)
(*   SpecDevice  AndroidAirplaneMode of src/b.py and src/c.py: one call of *)
(*            check_device_connection, toggle_airplane_mode or             *)
(*            airplane_mode_cycle against a device that is attached or     *)
(*            not; text the commands print is a sequence of characters.    *)
(*   SpecBatch  KoreanBlossomVision.batch_image_analysis of src/e.py, one  *)
(*            call for every image list and questions argument.            *)
(* Probabilities and random.random() draws are in hundredths.              *)
(***************************************************************************)
EXTENDS Integers, Sequences, FiniteSets, TLC

VARIABLES
    \* ---- interaction simulator (AIBrowserAutomation) ----
    sim_pc,         \* position inside execute_ai_scenario
    scenario,       \* the dict returned by generate_browsing_scenario
    gen_outcome,    \* how the text-generation call went (while its result is handed over)
    sel_idx,        \* index in search_selectors / search_buttons
    caller,         \* who called perform_search: "main" or "related"
    clicks,         \* element.click() calls in this run
    backs,          \* driver.back() calls in this run
    submitted,      \* Enter sent or search button clicked in this perform_search
    nav_left,       \* remaining iterations of random_navigation's loop
    sim_result,     \* what execute_ai_scenario returned or raised
    sim_interrupts, \* KeyboardInterrupts delivered to the simulator run
    waited,         \* seconds the WebDriverWait in progress has waited
    base_delay,     \* human_scroll's base_delay in milliseconds
    scroll_steps,   \* iterations of human_scroll's loop so far
    scroll_direction, \* human_scroll's scroll_direction
    scroll_pause,   \* the latest sleep of line 305 in milliseconds
    scroll_amount,  \* the latest offset passed to window.scrollBy
    failed_step,    \* the latest step of this run that failed
    last_action,    \* the latest of the ordered actions this run performed
    search_ok,      \* the run's own perform_search returned True
    on_results,     \* the browser shows a search results page
    \* ---- browsers ----
    own_driver,     \* driver of the browser created by single_ai_cycle
    shared_driver,  \* driver of the browser created by repeat/continuous
    browser_instance, \* local browser_instance is not None
    ai_browser,     \* what self.ai_browser refers to
    last_close,     \* how the most recent close_browser call went
    \* ---- controller (AdvancedAutomationController, main) ----
    pc,             \* position of the controller
    call,           \* the running (or last) top-level call and its arguments
    calls,          \* number of top-level calls made from the menu
    session_stats,  \* self.session_stats
    running,        \* self.running
    now,            \* time.time()
    cycle_number,   \* current_cycle / cycle_count
    cycle_ret,      \* value single_ai_cycle is returning
    summaries,      \* print_session_summary calls in the current call
    interrupts,     \* KeyboardInterrupts delivered to the controller
    \* ---- observation (history) ----
    stats_before,   \* session_stats when the current call was entered
    stats_at_cycle, \* session_stats when the current cycle was entered
    exec_env,       \* what happened inside execute_ai_scenario this cycle
    outcomes,       \* cycles of the current call, counted by what happened
    stop_checked,   \* continuous_ai_mode has read self.running as False
    airplane,       \* how airplane_mode_cycle went in this cycle, if called
    last_pkill,     \* the most recent close of a browser ran pkill
    sleeps,         \* inter-cycle sleeps started in the current call
    interrupted,    \* a KeyboardInterrupt was delivered during the current call
    call_limit,     \* operations the user starts before leaving main's menu
    \* ---- human_type (HumanLikeActions) ----
    type_pc,        \* position inside human_type
    type_text,      \* the text argument, a sequence of characters
    type_idx,       \* characters of text the for loop has finished
    field,          \* what the input element holds
    typos,          \* wrong characters sent so far
    \* ---- AndroidAirplaneMode (src/b.py, src/c.py) ----
    dev_pc,         \* position inside the running method
    dev_call,       \* the script and the method called
    dev_env,        \* adb missing, or what adb finds attached
    airplane_on,    \* the device's setting global airplane_mode_on
    dev_stdout,     \* result.stdout of the latest captured command
    dev_status,     \* what get_airplane_mode_status returned
    dev_log,        \* commands passed to subprocess.run in this call
    dev_sets,       \* what the set_airplane_mode calls of this call returned
    dev_ret,        \* what the method returned
    \* ---- batch_image_analysis (src/e.py) ----
    batch_pc,       \* position inside batch_image_analysis
    image_list,     \* the image_list argument
    questions_arg,  \* the questions argument: given or not, and the list
    questions,      \* the local list questions the loop zips with
    results         \* the list results

simvars == <<sim_pc, scenario, gen_outcome, sel_idx, caller, clicks, backs,
             submitted, nav_left, sim_result, sim_interrupts, waited,
             base_delay, scroll_steps, scroll_direction, scroll_pause,
             scroll_amount,
             failed_step, last_action, search_ok, on_results>>
browservars == <<own_driver, shared_driver, browser_instance, ai_browser, last_close>>
ctlvars == <<pc, call, calls, session_stats, running, now, cycle_number,
             cycle_ret, summaries, interrupts>>
histvars == <<stats_before, stats_at_cycle, exec_env, outcomes, stop_checked>>
obsvars == <<airplane, last_pkill, sleeps, interrupted>>
typevars == <<type_pc, type_text, type_idx, field, typos>>
devvars == <<dev_pc, dev_call, dev_env, airplane_on, dev_stdout, dev_status,
             dev_log, dev_sets, dev_ret>>
batchvars == <<batch_pc, image_list, questions_arg, questions, results>>
libvars == <<typevars, devvars, batchvars>>
progvars == <<simvars, browservars, ctlvars, histvars, obsvars, call_limit>>
vars == <<progvars, libvars>>

\* ---------------------------------------------------------------- bounds
MaxContentLen == 3
MaxSimInterrupts == 1
MaxScrollSteps == 2
MaxRepeat == 3
MaxCycles == 2
MaxCalls == 1
MaxInterrupts == 1
MaxTextLen == 3
MaxBatch == 3
MaxCallsSeq == 2

\* ------------------------------------------------------- random sources
\* random.random() in [0,1), in hundredths; every threshold it is compared
\* with in the simulator is a multiple of ten
RandomDraws == { 10 * d : d \in 0..9 }

\* random.randint(lo, hi): both ends included
RandInt(lo, hi) == lo..hi

\* ------------------------------------------------------------ scenarios
NoScenario == [source |-> "none"]

\* the four presets of get_fallback_scenario; reading_time is drawn per call
FallbackTable ==
    << [scroll_behavior |-> "medium", rt_lo |-> 3, rt_hi |-> 8,
        click_probability |-> 30, back_probability |-> 20],
       [scroll_behavior |-> "slow",   rt_lo |-> 5, rt_hi |-> 12,
        click_probability |-> 40, back_probability |-> 30],
       [scroll_behavior |-> "fast",   rt_lo |-> 4, rt_hi |-> 9,
        click_probability |-> 50, back_probability |-> 10],
       [scroll_behavior |-> "random", rt_lo |-> 6, rt_hi |-> 15,
        click_probability |-> 60, back_probability |-> 40] >>

MakeScenario(src, keys, nq, isdict, sb, rt, cp, bp) ==
    [source |-> src, keys |-> keys, search_queries |-> nq,
     pattern_is_dict |-> isdict, scroll_behavior |-> sb, reading_time |-> rt,
     click_probability |-> cp, back_probability |-> bp]

AllKeys == {"search_queries", "interaction_pattern"}

\* the reading_time draws the model takes from randint(rt_lo, rt_hi): both ends
ReadingTimeDraws(lo, hi) == { rt \in RandInt(lo, hi) : rt = lo \/ rt = hi }

\* get_fallback_scenario: random.choice over the table (k), randint draw (rt)
get_fallback_scenario ==
    UNION { { MakeScenario("fallback", AllKeys, 3, TRUE,
                           FallbackTable[k].scroll_behavior, rt,
                           FallbackTable[k].click_probability,
                           FallbackTable[k].back_probability) :
                rt \in ReadingTimeDraws(FallbackTable[k].rt_lo,
                                        FallbackTable[k].rt_hi) } :
            k \in 1..Len(FallbackTable) }

\* dicts the model's reply text can decode to (json.loads output is returned
\* as it is, line 128-130): the empty dict and a few filled ones
EmptyReply == MakeScenario("api", {}, 0, TRUE, "medium", 0, 0, 0)
ApiReplies ==
    { MakeScenario("api", AllKeys, 3, TRUE, "slow", 5, 0, 0),
      MakeScenario("api", AllKeys, 3, TRUE, "fast", 5, 150, 20),
      MakeScenario("api", AllKeys, 0, TRUE, "medium", -1, 30, 120),
      MakeScenario("api", AllKeys, 2, FALSE, "medium", 0, 0, 0) }

\* scenario.get(key, default) as the simulator reads the dict
SearchQueries(s) ==
    IF "search_queries" \in s.keys THEN s.search_queries ELSE 1
ClickProbability(s) ==
    IF "interaction_pattern" \in s.keys THEN s.click_probability ELSE 30
BackProbability(s) ==
    IF "interaction_pattern" \in s.keys THEN s.back_probability ELSE 20
ReadingTime(s) ==
    IF "interaction_pattern" \in s.keys THEN s.reading_time ELSE 5
ScrollBehavior(s) ==
    IF "interaction_pattern" \in s.keys THEN s.scroll_behavior ELSE "medium"

\* ------------------------------------------- reply text and JSON extraction
\* the reply text as a sequence of tokens: braces, a run of valid members,
\* a run of prose
Tokens == {"{", "}", "kv", "txt"}

RECURSIVE SeqsUpTo(_)
SeqsUpTo(n) ==
    IF n = 0 THEN { <<>> }
    ELSE LET shorter == SeqsUpTo(n - 1)
         IN  shorter \cup { Append(s, t) : s \in { x \in shorter : Len(x) = n - 1 },
                                          t \in Tokens }
Contents == SeqsUpTo(MaxContentLen)

Min(a, b) == IF a < b THEN a ELSE b
Max(a, b) == IF a > b THEN a ELSE b

\* str.find / str.rfind: 0-based index or -1
Find(c, ch) ==
    IF \E i \in 1..Len(c) : c[i] = ch
    THEN (CHOOSE i \in 1..Len(c) : c[i] = ch /\ \A j \in 1..(i-1) : c[j] # ch) - 1
    ELSE -1
RFind(c, ch) ==
    IF \E i \in 1..Len(c) : c[i] = ch
    THEN (CHOOSE i \in 1..Len(c) : c[i] = ch /\ \A j \in (i+1)..Len(c) : c[j] # ch) - 1
    ELSE -1

\* content[start:end] with Python's treatment of negative and large indices
PySlice(c, start, end) ==
    LET s == IF start < 0 THEN Max(Len(c) + start, 0) ELSE Min(start, Len(c))
        e == IF end < 0 THEN Max(Len(c) + end, 0) ELSE Min(end, Len(c))
    IN  IF e <= s THEN <<>> ELSE SubSeq(c, s + 1, e)

\* lines 125-127
json_str(content) == PySlice(content, Find(content, "{"), RFind(content, "}") + 1)

\* json.loads: the dicts the text decodes to; empty set = JSONDecodeError
json_loads(js) ==
    IF js = <<"{", "}">> THEN { EmptyReply }
    ELSE IF js = <<"{", "kv", "}">> THEN ApiReplies
    ELSE {}

\* ---------------------------------------------- generate_browsing_scenario
\* what the HTTPS call can do
ApiOutcomes == {"request_exception", "status_non200", "body_not_json", "status_200"}

GenResult(raised, outcome, value) ==
    [raised |-> raised, outcome |-> outcome, value |-> value]

\* the body of the try block, lines 103-136: requests.post raises; the status
\* is not 200; response.json() or the ['choices'][0] lookup raises; the reply
\* text is cut to its outermost braces and decoded
try_post(api, content) ==
    IF api = "request_exception"
    THEN { GenResult(TRUE, "request_exception", NoScenario) }
    ELSE IF api = "status_non200"
    THEN { GenResult(FALSE, "status_non200", s) : s \in get_fallback_scenario }
    ELSE IF api = "body_not_json"
    THEN { GenResult(TRUE, "body_not_json", NoScenario) }
    ELSE IF json_loads(json_str(content)) # {}
    THEN { GenResult(FALSE, "parsed", s) : s \in json_loads(json_str(content)) }
    ELSE { GenResult(FALSE, "content_not_json", s) : s \in get_fallback_scenario }

\* the same without the outer except clause
generate_browsing_scenario_no_outer_except(has_key, api, content) ==
    IF ~has_key
    THEN { GenResult(FALSE, "no_api_key", s) : s \in get_fallback_scenario }
    ELSE try_post(api, content)

\* lines 62-140: the results of one call
generate_browsing_scenario(has_key, api, content) ==
    IF ~has_key
    THEN { GenResult(FALSE, "no_api_key", s) : s \in get_fallback_scenario }
    ELSE UNION { IF r.raised
                 THEN { GenResult(FALSE, r.outcome, s) : s \in get_fallback_scenario }
                 ELSE { r } : r \in try_post(api, content) }

GenFailures == {"no_api_key", "request_exception", "status_non200",
                "body_not_json", "content_not_json"}

\* ======================================================================
\* The interaction simulator, AIBrowserAutomation (SpecSim)
\* ======================================================================
NumSearchSelectors == 5
NumSearchButtons == 4
EnterKeyChance == 70
ExploreChance == 40
RelatedNavChance == 50
ContentClickChance == 40
DirectionFlipChance == 10

\* the WebDriverWait timeouts, in seconds (one poll of the model per second)
BodyWaitTimeout == 15
SelectorWaitTimeout == 5
ResultsWaitTimeout == 10
TypoChance == 5

\* a call on the driver: it can raise (timeout, element missing) while the
\* session is alive and always raises once the session is gone
DriverCall == IF own_driver = "live" THEN {"ok", "raise"} ELSE {"raise"}

\* WebDriverWait(driver, timeout).until(...) gives up once the time waited
\* has reached the timeout
TimedOut(w, timeout) == w >= timeout

\* one poll of a WebDriverWait that has waited `waited` seconds: the
\* condition holds ("ok"), it does not and the wait goes on ("poll") or gives
\* up with TimeoutException ("timeout"); on a dead session the poll raises
WaitOutcomes(timeout) ==
    IF own_driver = "live"
    THEN {"ok", IF TimedOut(waited + 1, timeout) THEN "timeout" ELSE "poll"}
    ELSE {"raise"}

\* the five lambdas of random_navigation
NavActions == {"refresh", "back", "forward", "scroll_bottom", "scroll_top"}

SimSteps == {"gen", "show", "nav", "body_wait", "reading", "choose_query",
             "find_input", "click_box", "type", "submit", "submit_button",
             "results_wait", "scroll", "scroll_loop", "maybe_click",
             "maybe_back", "maybe_explore", "related_nav", "section_nav",
             "section_click", "random_nav"}

\* positions inside a try whose handler is a bare "except:" (it also
\* catches KeyboardInterrupt): lines 551-557, 587-593, 778-796, 820-824
BareExceptSteps == {"find_input", "submit_button", "section_click", "random_nav"}

\* the actions of one run in the order execute_scenario, perform_search and
\* perform_human_browsing perform them
OrderedActions == <<"nav", "body_wait", "type", "submit", "results_wait",
                    "scroll", "click", "back">>

\* position of an action in that order, 0 for "none"
Rank(a) ==
    IF \E i \in 1..Len(OrderedActions) : OrderedActions[i] = a
    THEN CHOOSE i \in 1..Len(OrderedActions) : OrderedActions[i] = a
    ELSE 0

\* the locals of human_scroll
scrollvars == <<base_delay, scroll_steps, scroll_direction, scroll_pause,
                scroll_amount>>

\* human_scroll is not running
NoScroll ==
    /\ base_delay' = 0
    /\ scroll_steps' = 0
    /\ scroll_direction' = 1
    /\ scroll_pause' = 0
    /\ scroll_amount' = 0

notsim == <<shared_driver, browser_instance, ai_browser, last_close, ctlvars,
            histvars, obsvars, libvars, call_limit>>

\* execute_scenario / execute_ai_scenario ends with value v
SimReturn(v) == sim_pc' = "done" /\ sim_result' = v

\* perform_search returns False and the search goes on all the same
PerformSearchFalse_goes_on ==
    IF caller = "main"
    THEN sim_pc' = "scroll" /\ sim_result' = sim_result
    ELSE SimReturn("True")

\* perform_search returns False: execute_scenario line 527-529 returns False;
\* try_related_search passes it on and execute_scenario line 526 returns True
PerformSearchFalse ==
    IF caller = "main" THEN SimReturn("False") ELSE SimReturn("True")

\* perform_search returns True, line 601
PerformSearchTrue ==
    IF caller = "main"
    THEN sim_pc' = "scroll" /\ sim_result' = sim_result
    ELSE SimReturn("True")

\* execute_ai_scenario is entered with a live browser
SimStart ==
    /\ sim_pc \in {"idle", "done"}
    /\ sim_pc' = "gen"
    /\ scenario' = NoScenario
    /\ gen_outcome' = "none"
    /\ sel_idx' = 0
    /\ caller' = "main"
    /\ clicks' = 0
    /\ backs' = 0
    /\ submitted' = FALSE
    /\ nav_left' = 0
    /\ sim_result' = "none"
    /\ sim_interrupts' = 0
    /\ waited' = 0
    /\ NoScroll
    /\ failed_step' = "none"
    /\ last_action' = "none"
    /\ search_ok' = FALSE
    /\ on_results' = FALSE
    /\ own_driver' = "live"
    /\ UNCHANGED notsim

\* line 484
SimGenerate ==
    /\ sim_pc = "gen"
    /\ \E has_key \in BOOLEAN, api \in ApiOutcomes, content \in Contents :
         \E r \in generate_browsing_scenario(has_key, api, content) :
            /\ gen_outcome' = r.outcome
            /\ scenario' = r.value
            /\ IF r.raised
               THEN SimReturn("Exception")
               ELSE sim_pc' = "show" /\ sim_result' = sim_result
    /\ UNCHANGED <<sel_idx, caller, clicks, backs, submitted, nav_left,
                   sim_interrupts, own_driver>>
    /\ UNCHANGED <<waited, scrollvars, failed_step, last_action, search_ok>>
    /\ UNCHANGED on_results
    /\ UNCHANGED notsim

\* lines 486-491: the prints read scenario['interaction_pattern'] with .get
SimShow ==
    /\ sim_pc = "show"
    /\ IF "interaction_pattern" \in scenario.keys /\ ~scenario.pattern_is_dict
       THEN SimReturn("AttributeError")
       ELSE sim_pc' = "nav" /\ sim_result' = sim_result
    /\ gen_outcome' = "none"
    /\ UNCHANGED <<scenario, sel_idx, caller, clicks, backs,
                   submitted, nav_left, sim_interrupts, own_driver>>
    /\ UNCHANGED <<waited, scrollvars, failed_step, last_action, search_ok>>
    /\ UNCHANGED on_results
    /\ UNCHANGED notsim

\* a statement of execute_scenario's try block that calls the driver:
\* on an exception lines 531-533 return False
SimDriverStep(here, next) ==
    /\ sim_pc = here
    /\ \E o \in DriverCall :
         IF o = "ok"
         THEN sim_pc' = next /\ sim_result' = sim_result /\ UNCHANGED failed_step
         ELSE SimReturn("False") /\ failed_step' = here
    /\ last_action' = IF Rank(here) > 0 THEN here ELSE last_action
    /\ on_results' = (on_results /\ here # "nav")
    /\ UNCHANGED <<scenario, gen_outcome, sel_idx, caller, clicks, backs,
                   submitted, nav_left, sim_interrupts, own_driver>>
    /\ UNCHANGED <<waited, scrollvars, search_ok>>
    /\ UNCHANGED notsim

\* line 498
SimNavigate == SimDriverStep("nav", "body_wait")

\* lines 501-503, one poll per step: TimeoutException, like any exception
\* of the driver, reaches lines 531-533
SimBodyWait ==
    /\ sim_pc = "body_wait"
    /\ \E o \in WaitOutcomes(BodyWaitTimeout) :
         IF o = "ok"
         THEN /\ sim_pc' = "reading" /\ sim_result' = sim_result
              /\ waited' = 0 /\ UNCHANGED failed_step
         ELSE IF o = "poll"
         THEN /\ sim_pc' = sim_pc /\ sim_result' = sim_result
              /\ waited' = waited + 1 /\ UNCHANGED failed_step
         ELSE SimReturn("False") /\ waited' = 0 /\ failed_step' = "body_wait"
    /\ last_action' = "body_wait"
    /\ UNCHANGED <<scenario, gen_outcome, sel_idx, caller, clicks, backs,
                   submitted, nav_left, sim_interrupts, own_driver>>
    /\ UNCHANGED <<scrollvars, search_ok>>
    /\ UNCHANGED on_results
    /\ UNCHANGED notsim

\* lines 505-510
SimReading == SimDriverStep("reading", "choose_query")

\* lines 513-518: random.choice of an empty list raises IndexError
SimChooseQuery ==
    /\ sim_pc = "choose_query"
    /\ IF SearchQueries(scenario) = 0
       THEN /\ SimReturn("False") /\ failed_step' = "choose_query"
            /\ UNCHANGED <<sel_idx, caller, submitted>>
       ELSE /\ sim_pc' = "find_input"
            /\ sim_result' = sim_result
            /\ sel_idx' = 1
            /\ caller' = "main"
            /\ submitted' = FALSE
            /\ UNCHANGED failed_step
    /\ UNCHANGED <<scenario, gen_outcome, clicks, backs, nav_left,
                   sim_interrupts, own_driver>>
    /\ UNCHANGED <<waited, scrollvars, last_action, search_ok>>
    /\ UNCHANGED on_results
    /\ UNCHANGED notsim

\* the selector at sel_idx did not resolve: lines 556-561
FindInputMiss ==
    /\ waited' = 0
    /\ IF sel_idx < NumSearchSelectors
       THEN /\ sim_pc' = sim_pc /\ sel_idx' = sel_idx + 1
            /\ sim_result' = sim_result /\ UNCHANGED failed_step
       ELSE PerformSearchFalse /\ sel_idx' = sel_idx /\ failed_step' = "find_input"

\* lines 549-561, one poll of one selector's wait per step: the bare except
\* takes TimeoutException and everything else to the next selector
SimFindInput ==
    /\ sim_pc = "find_input"
    /\ \E o \in WaitOutcomes(SelectorWaitTimeout) :
         IF o = "ok"
         THEN /\ sim_pc' = "click_box" /\ sel_idx' = sel_idx
              /\ sim_result' = sim_result /\ waited' = 0 /\ UNCHANGED failed_step
         ELSE IF o = "poll"
         THEN /\ sim_pc' = sim_pc /\ sel_idx' = sel_idx
              /\ sim_result' = sim_result /\ waited' = waited + 1
              /\ UNCHANGED failed_step
         ELSE FindInputMiss
    /\ UNCHANGED <<scenario, gen_outcome, caller, clicks, backs, submitted,
                   nav_left, sim_interrupts, own_driver>>
    /\ UNCHANGED <<scrollvars, last_action, search_ok>>
    /\ UNCHANGED on_results
    /\ UNCHANGED notsim

\* line 564, human_click lines 313-336: its own except swallows a failure
SimClickBox ==
    /\ sim_pc = "click_box"
    /\ \E o \in DriverCall :
         /\ clicks' = IF o = "ok" THEN clicks + 1 ELSE clicks
         /\ failed_step' = IF o = "ok" THEN failed_step ELSE "click_box"
    /\ sim_pc' = "type"
    /\ UNCHANGED <<scenario, gen_outcome, sel_idx, caller, backs, submitted,
                   nav_left, sim_result, sim_interrupts, own_driver>>
    /\ UNCHANGED <<waited, scrollvars, last_action, search_ok>>
    /\ UNCHANGED on_results
    /\ UNCHANGED notsim

\* lines 567-571: an exception is caught at line 603
SimType ==
    /\ sim_pc = "type"
    /\ \E o \in DriverCall :
         IF o = "ok"
         THEN sim_pc' = "submit" /\ sim_result' = sim_result /\ UNCHANGED failed_step
         ELSE PerformSearchFalse /\ failed_step' = "type"
    /\ last_action' = "type"
    /\ UNCHANGED <<scenario, gen_outcome, sel_idx, caller, clicks, backs,
                   submitted, nav_left, sim_interrupts, own_driver>>
    /\ UNCHANGED <<waited, scrollvars, search_ok>>
    /\ UNCHANGED on_results
    /\ UNCHANGED notsim

\* lines 574-584
SimSubmit ==
    /\ sim_pc = "submit"
    /\ \E r \in RandomDraws :
         IF r < EnterKeyChance
         THEN /\ \E o \in DriverCall :
                   IF o = "ok"
                   THEN /\ sim_pc' = "results_wait"
                        /\ submitted' = TRUE
                        /\ sel_idx' = sel_idx
                        /\ sim_result' = sim_result
                        /\ UNCHANGED failed_step
                   ELSE /\ PerformSearchFalse /\ failed_step' = "submit"
                        /\ UNCHANGED <<submitted, sel_idx>>
              /\ last_action' = "submit"
         ELSE /\ sim_pc' = "submit_button"
              /\ sel_idx' = 1
              /\ UNCHANGED <<submitted, sim_result, failed_step, last_action>>
    /\ UNCHANGED <<scenario, gen_outcome, caller, clicks, backs, nav_left,
                   sim_interrupts, own_driver>>
    /\ UNCHANGED <<waited, scrollvars, search_ok>>
    /\ UNCHANGED on_results
    /\ UNCHANGED notsim

\* the button selector at sel_idx did not resolve: lines 592-593; after the
\* last one the loop ends with nothing clicked
SubmitButtonMiss ==
    IF sel_idx < NumSearchButtons
    THEN sim_pc' = sim_pc /\ sel_idx' = sel_idx + 1 /\ UNCHANGED failed_step
    ELSE sim_pc' = "results_wait" /\ sel_idx' = sel_idx
         /\ failed_step' = "submit_button"

\* lines 586-593, one selector per step: find_element, then human_click
\* (which swallows a failed click), then break
SimSubmitButton ==
    /\ sim_pc = "submit_button"
    /\ \E found \in DriverCall :
         IF found = "ok"
         THEN /\ \E o \in DriverCall :
                   /\ clicks' = IF o = "ok" THEN clicks + 1 ELSE clicks
                   /\ submitted' = (o = "ok")
                   /\ failed_step' = IF o = "ok" THEN failed_step ELSE "submit_button"
              /\ sim_pc' = "results_wait"
              /\ sel_idx' = sel_idx
              /\ last_action' = "submit"
         ELSE SubmitButtonMiss /\ UNCHANGED <<clicks, submitted, last_action>>
    /\ UNCHANGED <<scenario, gen_outcome, caller, backs, nav_left, sim_result,
                   sim_interrupts, own_driver>>
    /\ UNCHANGED <<waited, scrollvars, search_ok>>
    /\ UNCHANGED on_results
    /\ UNCHANGED notsim

\* the wait of lines 596-598 is for a results page ("search.naver.com" in
\* current_url, or a .lst_type element): one can arrive once the query was
\* submitted, and the page the browser is on already may be one
ResultsWaitOutcomes ==
    IF submitted \/ on_results
    THEN WaitOutcomes(ResultsWaitTimeout)
    ELSE WaitOutcomes(ResultsWaitTimeout) \ {"ok"}

\* lines 596-605, one poll per step
SimResultsWait ==
    /\ sim_pc = "results_wait"
    /\ \E o \in ResultsWaitOutcomes :
         IF o = "ok"
         THEN /\ PerformSearchTrue /\ waited' = 0 /\ UNCHANGED failed_step
              /\ search_ok' = (search_ok \/ caller = "main")
              /\ on_results' = TRUE
         ELSE IF o = "poll"
         THEN /\ sim_pc' = sim_pc /\ sim_result' = sim_result
              /\ waited' = waited + 1
              /\ UNCHANGED <<failed_step, search_ok, on_results>>
         ELSE /\ PerformSearchFalse /\ waited' = 0
              /\ failed_step' = "results_wait"
              /\ UNCHANGED <<search_ok, on_results>>
    /\ last_action' = "results_wait"
    /\ UNCHANGED <<scenario, gen_outcome, sel_idx, caller, clicks, backs,
                   submitted, nav_left, sim_interrupts, own_driver>>
    /\ UNCHANGED scrollvars
    /\ UNCHANGED notsim

\* random.uniform(lo, hi) as the model draws it: both ends and the middle
UniformDraws(lo, hi) == {lo, (lo + hi) \div 2, hi}

\* base_delay of human_scroll in milliseconds, lines 273-284
BaseDelays(behavior) ==
    IF behavior = "slow" THEN {800}
    ELSE IF behavior = "fast" THEN {200}
    ELSE IF behavior = "random" THEN UniformDraws(100, 1000)
    ELSE {400}

StepPauses_from_zero(base) == UniformDraws(0, (base * 15) \div 10)

\* the sleep of line 305 in milliseconds
StepPauses(base) == UniformDraws((base * 5) \div 10, (base * 15) \div 10)

\* scroll_amounts of human_scroll, lines 274-283
ScrollAmounts(behavior) ==
    IF behavior = "slow" THEN {-100, -200, -150, -300}
    ELSE IF behavior = "fast" THEN {-400, -500, -600, -800}
    ELSE IF behavior = "random" THEN {-50, -100, -200, -300, -400, -500}
    ELSE {-200, -300, -250, -400}

\* the values "time.time() < end_time" of line 288 can take: False at once
\* for a duration that is not positive, True on entry otherwise
ScrollGoesOn ==
    IF ReadingTime(scenario) <= 0 THEN {FALSE}
    ELSE IF scroll_steps = 0 THEN {TRUE}
    ELSE IF scroll_steps < MaxScrollSteps THEN BOOLEAN
    ELSE {FALSE}

\* lines 609-615 and human_scroll lines 269-286
SimScroll ==
    /\ sim_pc = "scroll"
    /\ sim_pc' = "scroll_loop"
    /\ base_delay' \in BaseDelays(ScrollBehavior(scenario))
    /\ scroll_steps' = 0
    /\ scroll_direction' = 1
    /\ scroll_pause' = 0
    /\ scroll_amount' = 0
    /\ last_action' = "scroll"
    /\ UNCHANGED <<scenario, gen_outcome, sel_idx, caller, clicks, backs,
                   submitted, nav_left, sim_result, sim_interrupts, own_driver>>
    /\ UNCHANGED <<waited, failed_step, search_ok>>
    /\ UNCHANGED on_results
    /\ UNCHANGED notsim

\* human_scroll lines 288-311, one iteration per step (the reading pause of
\* lines 300-303 comes on top of the step's pause); after the loop the
\* scroll to the top of line 310. execute_script is not guarded: its
\* exception reaches lines 531-533
SimScrollLoop ==
    /\ sim_pc = "scroll_loop"
    /\ \E go \in ScrollGoesOn, o \in DriverCall :
         IF o = "raise"
         THEN SimReturn("False") /\ NoScroll /\ failed_step' = "scroll"
         ELSE IF go
         THEN \E r \in RandomDraws, p \in StepPauses(base_delay),
                 a \in ScrollAmounts(ScrollBehavior(scenario)) :
                /\ scroll_direction' = IF r < DirectionFlipChance
                                       THEN -scroll_direction ELSE scroll_direction
                /\ scroll_amount' = a * scroll_direction'
                /\ scroll_pause' = p
                /\ scroll_steps' = scroll_steps + 1
                /\ UNCHANGED <<sim_pc, sim_result, base_delay, failed_step>>
         ELSE sim_pc' = "maybe_click" /\ NoScroll
              /\ UNCHANGED <<sim_result, failed_step>>
    /\ UNCHANGED <<scenario, gen_outcome, sel_idx, caller, clicks, backs,
                   submitted, nav_left, sim_interrupts, own_driver>>
    /\ UNCHANGED <<waited, last_action, search_ok>>
    /\ UNCHANGED on_results
    /\ UNCHANGED notsim

\* random.random() < probability
Chance(r, probability) == r < probability

\* lines 618-625: try_click_search_result (lines 634-673) clicks one of the
\* top results or finds none; its except swallows failures. The mouse
\* movement of lines 624-625 touches no element and swallows its failures.
SimMaybeClick ==
    /\ sim_pc = "maybe_click"
    /\ \E r \in RandomDraws :
         IF Chance(r, ClickProbability(scenario))
         THEN /\ \E o \in DriverCall :
                   /\ clicks' = IF o = "ok" THEN clicks + 1 ELSE clicks
                   /\ failed_step' = IF o = "ok" THEN failed_step ELSE "result_click"
                   /\ on_results' \in IF o = "ok" THEN BOOLEAN ELSE {on_results}
              /\ last_action' = "click"
         ELSE UNCHANGED <<clicks, failed_step, last_action, on_results>>
    /\ sim_pc' = "maybe_back"
    /\ UNCHANGED <<scenario, gen_outcome, sel_idx, caller, backs, submitted,
                   nav_left, sim_result, sim_interrupts, own_driver>>
    /\ UNCHANGED <<waited, scrollvars, search_ok>>
    /\ UNCHANGED notsim

\* lines 628-632: driver.back() is not guarded, execute_scenario catches
SimMaybeBack ==
    /\ sim_pc = "maybe_back"
    /\ \E r \in RandomDraws :
         IF Chance(r, BackProbability(scenario))
         THEN /\ backs' = backs + 1
              /\ last_action' = "back"
              /\ \E o \in DriverCall :
                   IF o = "ok"
                   THEN /\ sim_pc' = "maybe_explore" /\ sim_result' = sim_result
                        /\ on_results' \in BOOLEAN
                        /\ UNCHANGED failed_step
                   ELSE /\ SimReturn("False") /\ failed_step' = "back"
                        /\ UNCHANGED on_results
         ELSE /\ backs' = backs
              /\ sim_pc' = "maybe_explore"
              /\ sim_result' = sim_result
              /\ UNCHANGED <<failed_step, last_action, on_results>>
    /\ UNCHANGED <<scenario, gen_outcome, sel_idx, caller, clicks, submitted,
                   nav_left, sim_interrupts, own_driver>>
    /\ UNCHANGED <<waited, scrollvars, search_ok>>
    /\ UNCHANGED notsim

\* lines 523-526 and perform_additional_exploration lines 675-686
SimMaybeExplore ==
    /\ sim_pc = "maybe_explore"
    /\ \E r \in RandomDraws :
         IF Chance(r, ExploreChance)
         THEN \E a \in {"related_nav", "section_nav", "random_nav"} :
                /\ sim_pc' = a
                /\ sim_result' = sim_result
                /\ IF a = "random_nav"
                   THEN nav_left' \in RandInt(1, 3)
                   ELSE nav_left' = nav_left
         ELSE SimReturn("True") /\ nav_left' = nav_left
    /\ UNCHANGED <<scenario, gen_outcome, sel_idx, caller, clicks, backs,
                   submitted, sim_interrupts, own_driver>>
    /\ UNCHANGED <<waited, scrollvars, failed_step, last_action, search_ok>>
    /\ UNCHANGED on_results
    /\ UNCHANGED notsim

\* perform_search is entered from try_related_search, line 717
EnterRelatedSearch ==
    /\ sim_pc' = "find_input"
    /\ sel_idx' = 1
    /\ caller' = "related"
    /\ submitted' = FALSE
    /\ sim_result' = sim_result

\* try_related_search lines 709-721: an exception of driver.get is caught
\* there and execute_scenario still returns True
SimRelatedNav ==
    /\ sim_pc = "related_nav"
    /\ \E r \in RandomDraws :
         IF Chance(r, RelatedNavChance)
         THEN /\ \E o \in DriverCall :
                   IF o = "ok"
                   THEN /\ EnterRelatedSearch /\ on_results' = FALSE
                        /\ UNCHANGED failed_step
                   ELSE /\ SimReturn("True") /\ failed_step' = "related_nav"
                        /\ UNCHANGED <<sel_idx, caller, submitted, on_results>>
              /\ last_action' = "nav"
         ELSE EnterRelatedSearch /\ UNCHANGED <<failed_step, last_action, on_results>>
    /\ UNCHANGED <<scenario, gen_outcome, clicks, backs, nav_left,
                   sim_interrupts, own_driver>>
    /\ UNCHANGED <<waited, scrollvars, search_ok>>
    /\ UNCHANGED notsim

\* explore_naver_sections lines 740-748: get, reading, human_scroll
SimSectionNav ==
    /\ sim_pc = "section_nav"
    /\ \E o \in DriverCall :
         IF o = "ok"
         THEN /\ sim_pc' = "section_click" /\ sim_result' = sim_result
              /\ last_action' = "scroll" /\ UNCHANGED failed_step
         ELSE /\ SimReturn("True") /\ failed_step' = "section_nav"
              /\ UNCHANGED last_action
    /\ UNCHANGED <<scenario, gen_outcome, sel_idx, caller, clicks, backs,
                   submitted, nav_left, sim_interrupts, own_driver>>
    /\ UNCHANGED <<waited, scrollvars, search_ok>>
    /\ UNCHANGED on_results
    /\ UNCHANGED notsim

\* lines 751-754 and try_click_content lines 760-801
SimSectionClick ==
    /\ sim_pc = "section_click"
    /\ \E r \in RandomDraws :
         IF Chance(r, ContentClickChance)
         THEN \E o \in DriverCall : clicks' = IF o = "ok" THEN clicks + 1 ELSE clicks
         ELSE clicks' = clicks
    /\ SimReturn("True")
    /\ UNCHANGED <<scenario, gen_outcome, sel_idx, caller, backs, submitted,
                   nav_left, sim_interrupts, own_driver>>
    /\ UNCHANGED <<waited, scrollvars, failed_step, last_action, search_ok>>
    /\ UNCHANGED on_results
    /\ UNCHANGED notsim

\* one iteration of random_navigation's loop is over, lines 818-826
NavIterationDone ==
    /\ nav_left' = nav_left - 1
    /\ IF nav_left = 1
       THEN SimReturn("True")
       ELSE sim_pc' = sim_pc /\ sim_result' = sim_result

\* random_navigation lines 817-826: each action's failure is swallowed
SimRandomNav ==
    /\ sim_pc = "random_nav"
    /\ \E a \in NavActions :
         /\ backs' = IF a = "back" THEN backs + 1 ELSE backs
         /\ last_action' = IF a = "back" THEN "back" ELSE last_action
    /\ NavIterationDone
    /\ UNCHANGED <<scenario, gen_outcome, sel_idx, caller, clicks, submitted,
                   sim_interrupts, own_driver>>
    /\ UNCHANGED <<waited, scrollvars, failed_step, search_ok>>
    /\ UNCHANGED on_results
    /\ UNCHANGED notsim

\* the browser session becomes unavailable (the browser crashed)
SimSessionLost ==
    /\ sim_pc \in SimSteps
    /\ own_driver = "live"
    /\ own_driver' = "crashed"
    /\ UNCHANGED simvars
    /\ UNCHANGED notsim

\* KeyboardInterrupt while the simulator runs: a bare except swallows it and
\* the loop goes on; "except Exception" (lines 138, 335, 531, 603, ...) does
\* not catch it and it leaves execute_ai_scenario
SimInterrupt ==
    /\ sim_pc \in SimSteps
    /\ sim_interrupts < MaxSimInterrupts
    /\ sim_interrupts' = sim_interrupts + 1
    /\ IF sim_pc = "find_input"
       THEN FindInputMiss /\ UNCHANGED <<nav_left, scrollvars>>
       ELSE IF sim_pc = "submit_button"
       THEN SubmitButtonMiss /\ UNCHANGED <<sim_result, nav_left, waited, scrollvars>>
       ELSE IF sim_pc = "random_nav"
       THEN NavIterationDone /\ UNCHANGED <<sel_idx, waited, scrollvars, failed_step>>
       ELSE IF sim_pc = "section_click"
       THEN /\ SimReturn("True")
            /\ UNCHANGED <<sel_idx, nav_left, waited, scrollvars, failed_step>>
       ELSE /\ SimReturn("KeyboardInterrupt") /\ waited' = 0 /\ NoScroll
            /\ UNCHANGED <<sel_idx, nav_left, failed_step>>
    /\ UNCHANGED <<scenario, gen_outcome, caller, clicks, backs, submitted,
                   own_driver>>
    /\ UNCHANGED <<last_action, search_ok>>
    /\ UNCHANGED on_results
    /\ UNCHANGED notsim

\* the statements of the simulator itself
SimProgram ==
    \/ SimGenerate
    \/ SimShow
    \/ SimNavigate
    \/ SimBodyWait
    \/ SimReading
    \/ SimChooseQuery
    \/ SimFindInput
    \/ SimClickBox
    \/ SimType
    \/ SimSubmit
    \/ SimSubmitButton
    \/ SimResultsWait
    \/ SimScroll
    \/ SimScrollLoop
    \/ SimMaybeClick
    \/ SimMaybeBack
    \/ SimMaybeExplore
    \/ SimRelatedNav
    \/ SimSectionNav
    \/ SimSectionClick
    \/ SimRandomNav

SimNext ==
    \/ SimStart
    \/ SimProgram
    \/ SimSessionLost
    \/ SimInterrupt

\* a controller that is not running anything
IdleStats == [total_cycles |-> 0, successful_cycles |-> 0, failed_cycles |-> 0,
              start_time |-> 0]
NoCall == [kind |-> "none", menu_test |-> FALSE, test_mode |-> FALSE,
           keep_browser_open |-> FALSE, repeat_count |-> 0]

NoOutcomes == [ran |-> 0, ok |-> 0, sim_false |-> 0, raised |-> 0, interrupted |-> 0]

SimInitVars ==
    /\ sim_pc = "idle"
    /\ scenario = NoScenario
    /\ gen_outcome = "none"
    /\ sel_idx = 0
    /\ caller = "main"
    /\ clicks = 0
    /\ backs = 0
    /\ submitted = FALSE
    /\ nav_left = 0
    /\ sim_result = "none"
    /\ sim_interrupts = 0
    /\ waited = 0
    /\ base_delay = 0
    /\ scroll_steps = 0
    /\ scroll_direction = 1
    /\ scroll_pause = 0
    /\ scroll_amount = 0
    /\ failed_step = "none"
    /\ last_action = "none"
    /\ search_ok = FALSE
    /\ on_results = FALSE

BrowserInitVars ==
    /\ own_driver = "None"
    /\ shared_driver = "None"
    /\ browser_instance = FALSE
    /\ ai_browser = "None"
    /\ last_close = "none"

CtlInitVars ==
    /\ pc = "menu"
    /\ call = NoCall
    /\ calls = 0
    /\ session_stats = IdleStats
    /\ running = FALSE
    /\ now = 1
    /\ cycle_number = 0
    /\ cycle_ret = "none"
    /\ summaries = 0
    /\ interrupts = 0
    /\ stats_before = IdleStats
    /\ stats_at_cycle = IdleStats
    /\ exec_env = "none"
    /\ outcomes = NoOutcomes
    /\ stop_checked = FALSE
    /\ airplane = "none"
    /\ last_pkill = FALSE
    /\ sleeps = 0
    /\ interrupted = FALSE

\* no human_type call is in progress
TypeIdle ==
    /\ type_pc = "idle"
    /\ type_text = <<>>
    /\ type_idx = 0
    /\ field = <<>>
    /\ typos = 0

\* no AndroidAirplaneMode method is running
DevIdle ==
    /\ dev_pc = "idle"
    /\ dev_call = [script |-> "none", op |-> "none"]
    /\ dev_env = "no_adb"
    /\ airplane_on = "0"
    /\ dev_stdout = <<>>
    /\ dev_status = "unread"
    /\ dev_log = <<>>
    /\ dev_sets = <<>>
    /\ dev_ret = "none"

\* no batch_image_analysis call is running
BatchIdle ==
    /\ batch_pc = "idle"
    /\ image_list = <<>>
    /\ questions_arg = [given |-> FALSE, list |-> <<>>]
    /\ questions = <<>>
    /\ results = <<>>

ProgramInit ==
    /\ SimInitVars
    /\ BrowserInitVars
    /\ CtlInitVars
    /\ call_limit = MaxCalls

Init == ProgramInit /\ TypeIdle /\ DevIdle /\ BatchIdle

SpecSim == Init /\ [][SimNext]_vars

\* ======================================================================
\* The cycle controller, AdvancedAutomationController (Spec)
\* ======================================================================
notctl == <<simvars, libvars, call_limit>>

CyclePcs == {"cyc_create", "cyc_exec", "cyc_post", "cyc_airplane",
             "cyc_except", "cyc_cleanup", "cyc_finally"}
RepeatPcs == {"rep_create", "rep_loop", "rep_after", "rep_sleep"}
ContinuousPcs == {"cont_create", "cont_check", "cont_after", "cont_sleep"}
FinallyPcs == {"rep_finally", "rep_summary", "cont_finally", "cont_summary"}

\* line 953
create_new_browser == ~browser_instance

\* the driver of the browser self.ai_browser refers to
DriverOf(ref) ==
    IF ref = "own" THEN own_driver
    ELSE IF ref = "shared" THEN shared_driver
    ELSE "None"

\* how the graceful part of close_browser (lines 871-876) can go
CloseOutcomes(d) == IF d = "live" THEN {"ok", "raise"} ELSE {"raise"}

\* close_browser lines 867-894 on a browser whose driver is d: nothing when
\* the driver is None; else the graceful close works (g = "ok") or raises and
\* the except branch kills the processes; finally the driver is None
close_browser(d, g) ==
    IF d = "None" THEN last_close
    ELSE IF g = "ok" THEN "graceful"
    ELSE "forced"

\* does close_browser run pkill: nothing happens when the driver is None;
\* lines 879-883 run it after a graceful close that worked, lines 887-892
\* after one that raised
pkill_issued(d, g) ==
    IF d = "None" THEN last_pkill
    ELSE IF g = "ok" THEN TRUE
    ELSE TRUE

\* the browser ref is closed with graceful outcome g
CloseRef(ref, g) ==
    /\ last_close' = close_browser(DriverOf(ref), g)
    /\ last_pkill' = pkill_issued(DriverOf(ref), g)
    /\ own_driver' = IF ref = "own" THEN "None" ELSE own_driver
    /\ shared_driver' = IF ref = "shared" THEN "None" ELSE shared_driver

\* what can happen inside execute_ai_scenario (lines 481-533) on driver d:
\* it returns True; a step fails and line 531-533 or 527-529 returns False;
\* the session is gone, a driver call raises and line 531-533 returns False;
\* line 489 raises AttributeError on a reply whose interaction_pattern is
\* not a dict
ExecEnvs(d) ==
    IF d = "live"
    THEN {"ok", "step_failed", "session_unavailable", "malformed_scenario"}
    ELSE {"session_unavailable", "malformed_scenario"}

\* the value execute_ai_scenario returns, or "raise"
execute_ai_scenario(env) ==
    IF env = "ok" THEN "True"
    ELSE IF env = "malformed_scenario" THEN "raise"
    ELSE "False"

\* a cycle is entered: single_ai_cycle lines 944-953
EnterCycle(n) ==
    /\ pc' = "cyc_create"
    /\ cycle_number' = n
    /\ cycle_ret' = "none"
    /\ stats_at_cycle' = session_stats
    /\ exec_env' = "none"

\* check_prerequisites lines 912-942: the device is asked for only outside
\* test mode; a browser that cannot be created gives False
check_prerequisites(test_mode, device_connected, browser_works) ==
    IF ~browser_works THEN FALSE
    ELSE IF ~test_mode THEN device_connected
    ELSE TRUE

\* the test_mode argument main passes: False from the normal options (lines
\* 1281, 1331, 1385); from the test-mode options "not show_browser" (line
\* 1303), where options 4 and 6 ask for show_browser only when the browser
\* is kept and pass True otherwise (lines 1356-1360, 1402-1406)
TestModeValue(kind, menu_test, keep_browser, show_browser) ==
    IF ~menu_test THEN FALSE
    ELSE IF kind = "single" THEN ~show_browser
    ELSE IF keep_browser THEN ~show_browser
    ELSE TRUE

\* a menu option passed its check_prerequisites and makes its call
MenuCall(kind, counts, keeps) ==
    \E n \in counts, mt \in BOOLEAN, keep \in keeps, show_browser \in BOOLEAN,
       device_connected \in BOOLEAN, browser_works \in BOOLEAN :
        /\ check_prerequisites(mt, device_connected, browser_works)
        /\ call' = [kind |-> kind, menu_test |-> mt,
                    test_mode |-> TestModeValue(kind, mt, keep, show_browser),
                    keep_browser_open |-> keep, repeat_count |-> n]

\* ---- main's menu: options 1-6 (lines 1267-1410) ----
StartSingle ==
    /\ pc = "menu"
    /\ calls < call_limit
    /\ MenuCall("single", {1}, {FALSE})
    /\ calls' = calls + 1
    /\ now' = now + 1
    /\ summaries' = 0
    /\ stats_before' = session_stats
    /\ outcomes' = NoOutcomes
    /\ stop_checked' = FALSE
    /\ browser_instance' = FALSE
    /\ EnterCycle(1)
    /\ UNCHANGED <<session_stats, running, interrupts>>
    /\ UNCHANGED <<own_driver, shared_driver, ai_browser, last_close>>
    /\ airplane' = "none" /\ sleeps' = 0 /\ interrupted' = FALSE
    /\ UNCHANGED last_pkill
    /\ UNCHANGED notctl

\* repeat_ai_cycles lines 1028-1041
StartRepeat_fresh_stats ==
    /\ pc = "menu"
    /\ calls < call_limit
    /\ MenuCall("repeat", 0..MaxRepeat, BOOLEAN)
    /\ calls' = calls + 1
    /\ now' = now + 1
    /\ session_stats' = [IdleStats EXCEPT !.start_time = now']
    /\ browser_instance' = FALSE
    /\ pc' = "rep_create"
    /\ cycle_number' = 0
    /\ cycle_ret' = "none"
    /\ summaries' = 0
    /\ stats_before' = session_stats
    /\ outcomes' = NoOutcomes
    /\ stop_checked' = FALSE
    /\ UNCHANGED <<running, interrupts, stats_at_cycle, exec_env>>
    /\ UNCHANGED <<own_driver, shared_driver, ai_browser, last_close>>
    /\ airplane' = "none" /\ sleeps' = 0 /\ interrupted' = FALSE
    /\ UNCHANGED last_pkill
    /\ UNCHANGED notctl
StartRepeat ==
    /\ pc = "menu"
    /\ calls < call_limit
    /\ MenuCall("repeat", 0..MaxRepeat, BOOLEAN)
    /\ calls' = calls + 1
    /\ now' = now + 1
    /\ session_stats' = [session_stats EXCEPT !.start_time = now']
    /\ browser_instance' = FALSE
    /\ pc' = "rep_create"
    /\ cycle_number' = 0
    /\ cycle_ret' = "none"
    /\ summaries' = 0
    /\ stats_before' = session_stats
    /\ outcomes' = NoOutcomes
    /\ stop_checked' = FALSE
    /\ UNCHANGED <<running, interrupts, stats_at_cycle, exec_env>>
    /\ UNCHANGED <<own_driver, shared_driver, ai_browser, last_close>>
    /\ airplane' = "none" /\ sleeps' = 0 /\ interrupted' = FALSE
    /\ UNCHANGED last_pkill
    /\ UNCHANGED notctl

\* continuous_ai_mode lines 1097-1107
StartContinuous ==
    /\ pc = "menu"
    /\ calls < call_limit
    /\ MenuCall("continuous", {0}, BOOLEAN)
    /\ calls' = calls + 1
    /\ now' = now + 1
    /\ running' = TRUE
    /\ session_stats' = [session_stats EXCEPT !.start_time = now']
    /\ browser_instance' = FALSE
    /\ pc' = "cont_create"
    /\ cycle_number' = 0
    /\ cycle_ret' = "none"
    /\ summaries' = 0
    /\ stats_before' = session_stats
    /\ outcomes' = NoOutcomes
    /\ stop_checked' = FALSE
    /\ UNCHANGED <<interrupts, stats_at_cycle, exec_env>>
    /\ UNCHANGED <<own_driver, shared_driver, ai_browser, last_close>>
    /\ airplane' = "none" /\ sleeps' = 0 /\ interrupted' = FALSE
    /\ UNCHANGED last_pkill
    /\ UNCHANGED notctl

\* the shared browser is created when keep_browser_open is set; a failure of
\* the constructor goes to "except Exception" and then to finally
CreateShared(here, loop, fin) ==
    /\ pc = here
    /\ IF call.keep_browser_open
       THEN \E o \in {"ok", "raise"} :
              IF o = "ok"
              THEN browser_instance' = TRUE /\ shared_driver' = "live" /\ pc' = loop
              ELSE UNCHANGED <<browser_instance, shared_driver>> /\ pc' = fin
       ELSE UNCHANGED <<browser_instance, shared_driver>> /\ pc' = loop
    /\ UNCHANGED <<call, calls, session_stats, running, now, cycle_number,
                   cycle_ret, summaries, interrupts>>
    /\ UNCHANGED <<own_driver, ai_browser, last_close>>
    /\ UNCHANGED histvars
    /\ UNCHANGED obsvars
    /\ UNCHANGED notctl

\* lines 1043-1047
RepCreate == CreateShared("rep_create", "rep_loop", "rep_finally")
\* lines 1109-1115
ContCreate == CreateShared("cont_create", "cont_check", "cont_finally")

\* the for statement of line 1049 and the call of lines 1050-1062
RepLoop ==
    /\ pc = "rep_loop"
    /\ IF cycle_number < call.repeat_count
       THEN EnterCycle(cycle_number + 1)
       ELSE pc' = "rep_finally" /\ UNCHANGED <<cycle_number, cycle_ret,
                                               stats_at_cycle, exec_env>>
    /\ UNCHANGED <<call, calls, session_stats, running, now, summaries, interrupts>>
    /\ UNCHANGED browservars
    /\ UNCHANGED <<stats_before, outcomes, stop_checked>>
    /\ UNCHANGED obsvars
    /\ UNCHANGED notctl

\* the same without the test: a sleep after every cycle
SleepBetween_every_cycle(current_cycle, repeat_count) == TRUE

\* the test of line 1070
SleepBetween(current_cycle, repeat_count) == current_cycle < repeat_count

\* lines 1064-1072
RepAfter ==
    /\ pc = "rep_after"
    /\ IF SleepBetween(cycle_number, call.repeat_count)
       THEN pc' = "rep_sleep" /\ sleeps' = sleeps + 1
       ELSE pc' = "rep_loop" /\ UNCHANGED sleeps
    /\ UNCHANGED <<airplane, last_pkill, interrupted>>
    /\ UNCHANGED <<call, calls, session_stats, running, now, cycle_number,
                   cycle_ret, summaries, interrupts>>
    /\ UNCHANGED browservars
    /\ UNCHANGED histvars
    /\ UNCHANGED notctl

\* time.sleep(interval_seconds) of line 1072 returns
RepSleep ==
    /\ pc = "rep_sleep"
    /\ pc' = "rep_loop"
    /\ UNCHANGED <<call, calls, session_stats, running, now, cycle_number,
                   cycle_ret, summaries, interrupts>>
    /\ UNCHANGED browservars
    /\ UNCHANGED histvars
    /\ UNCHANGED obsvars
    /\ UNCHANGED notctl

\* the same as "while True"
WhileRunning_ignores_flag(r) == TRUE

\* the loop condition of line 1117
WhileRunning(r) == r

\* the sleep condition of line 1139
IfRunning(r) == r

\* line 1117-1128: the while test and, when it passes, the next cycle
ContCheck ==
    /\ pc = "cont_check"
    /\ IF WhileRunning(running)
       THEN /\ cycle_number < MaxCycles
            /\ EnterCycle(cycle_number + 1)
            /\ UNCHANGED stop_checked
       ELSE /\ pc' = "cont_finally"
            /\ stop_checked' = TRUE
            /\ UNCHANGED <<cycle_number, cycle_ret, stats_at_cycle, exec_env>>
    /\ UNCHANGED <<call, calls, session_stats, running, now, summaries, interrupts>>
    /\ UNCHANGED browservars
    /\ UNCHANGED <<stats_before, outcomes>>
    /\ UNCHANGED obsvars
    /\ UNCHANGED notctl

\* lines 1130-1141
ContAfter ==
    /\ pc = "cont_after"
    /\ IF IfRunning(running)
       THEN pc' = "cont_sleep" /\ sleeps' = sleeps + 1 /\ UNCHANGED stop_checked
       ELSE pc' = "cont_check" /\ stop_checked' = TRUE /\ UNCHANGED sleeps
    /\ UNCHANGED <<airplane, last_pkill, interrupted>>
    /\ UNCHANGED <<call, calls, session_stats, running, now, cycle_number,
                   cycle_ret, summaries, interrupts>>
    /\ UNCHANGED browservars
    /\ UNCHANGED <<stats_before, stats_at_cycle, exec_env, outcomes>>
    /\ UNCHANGED notctl

\* time.sleep(interval_seconds) of line 1141 returns
ContSleep ==
    /\ pc = "cont_sleep"
    /\ pc' = "cont_check"
    /\ UNCHANGED <<call, calls, session_stats, running, now, cycle_number,
                   cycle_ret, summaries, interrupts>>
    /\ UNCHANGED browservars
    /\ UNCHANGED histvars
    /\ UNCHANGED obsvars
    /\ UNCHANGED notctl

\* somebody sets controller.running = False while continuous_ai_mode runs
StopRequest ==
    /\ call.kind = "continuous"
    /\ pc \in ContinuousPcs \cup CyclePcs
    /\ running
    /\ running' = FALSE
    /\ UNCHANGED <<pc, call, calls, session_stats, now, cycle_number,
                   cycle_ret, summaries, interrupts>>
    /\ UNCHANGED browservars
    /\ UNCHANGED histvars
    /\ UNCHANGED obsvars
    /\ UNCHANGED notctl

\* ---- single_ai_cycle ----
\* lines 955-962
CycCreate ==
    /\ pc = "cyc_create"
    /\ IF create_new_browser
       THEN \E o \in {"ok", "raise"} :
              IF o = "ok"
              THEN own_driver' = "live" /\ ai_browser' = "own" /\ pc' = "cyc_exec"
              ELSE UNCHANGED <<own_driver, ai_browser>> /\ pc' = "cyc_except"
       ELSE UNCHANGED own_driver /\ ai_browser' = "shared" /\ pc' = "cyc_exec"
    /\ UNCHANGED <<call, calls, session_stats, running, now, cycle_number,
                   cycle_ret, summaries, interrupts>>
    /\ UNCHANGED <<shared_driver, browser_instance, last_close>>
    /\ UNCHANGED histvars
    /\ UNCHANGED obsvars
    /\ UNCHANGED notctl

\* the session of the browser in use is lost during the scenario
LoseSession(env) ==
    /\ own_driver' = IF env = "session_unavailable" /\ ai_browser = "own"
                     THEN "crashed" ELSE own_driver
    /\ shared_driver' = IF env = "session_unavailable" /\ ai_browser = "shared"
                        THEN "crashed" ELSE shared_driver

\* lines 968-972 when success is False: the browser this cycle created is
\* closed, the cycle returns False
FailedScenario_leaves_open(env) ==
    /\ LoseSession(env)
    /\ UNCHANGED <<last_close, last_pkill>>
    /\ cycle_ret' = "False"
    /\ pc' = "cyc_finally"
FailedScenario(env) ==
    /\ IF create_new_browser
       THEN \E g \in CloseOutcomes(IF env = "session_unavailable"
                                   THEN "crashed" ELSE own_driver) :
              /\ last_close' = IF g = "ok" THEN "graceful" ELSE "forced"
              /\ last_pkill' = TRUE
              /\ own_driver' = "None"
              /\ UNCHANGED shared_driver
       ELSE LoseSession(env) /\ UNCHANGED <<last_close, last_pkill>>
    /\ cycle_ret' = "False"
    /\ pc' = "cyc_finally"

\* lines 964-972
CycExec ==
    /\ pc = "cyc_exec"
    /\ \E env \in ExecEnvs(DriverOf(ai_browser)) :
         /\ exec_env' = env
         /\ IF execute_ai_scenario(env) = "True"
            THEN pc' = "cyc_post" /\ UNCHANGED <<cycle_ret, own_driver, shared_driver,
                                                 last_close, last_pkill>>
            ELSE IF execute_ai_scenario(env) = "False"
            THEN FailedScenario(env)
            ELSE pc' = "cyc_except" /\ UNCHANGED <<cycle_ret, own_driver, shared_driver,
                                                   last_close, last_pkill>>
    /\ UNCHANGED <<airplane, sleeps, interrupted>>
    /\ UNCHANGED <<call, calls, session_stats, running, now, cycle_number,
                   summaries, interrupts>>
    /\ UNCHANGED <<browser_instance, ai_browser>>
    /\ UNCHANGED <<stats_before, stats_at_cycle, outcomes, stop_checked>>
    /\ UNCHANGED notctl

\* lines 974-989: page analysis and screenshot swallow their failures; the
\* browser this cycle created is closed
CycPost ==
    /\ pc = "cyc_post"
    /\ IF create_new_browser
       THEN \E g \in CloseOutcomes(own_driver) : CloseRef("own", g)
       ELSE UNCHANGED <<own_driver, shared_driver, last_close, last_pkill>>
    /\ UNCHANGED <<airplane, sleeps, interrupted>>
    /\ pc' = "cyc_airplane"
    /\ UNCHANGED <<call, calls, session_stats, running, now, cycle_number,
                   cycle_ret, summaries, interrupts>>
    /\ UNCHANGED <<browser_instance, ai_browser>>
    /\ UNCHANGED histvars
    /\ UNCHANGED notctl

\* the same with a failed radio toggle counted as a failed cycle
CountedSuccessful_toggle_decides(test_mode, airplane_success) ==
    test_mode \/ airplane_success

\* lines 991-1006: is the cycle counted in successful_cycles
CountedSuccessful(test_mode, airplane_success) ==
    IF ~test_mode
    THEN IF airplane_success THEN TRUE ELSE TRUE
    ELSE TRUE

\* lines 991-1006
CycAirplane ==
    /\ pc = "cyc_airplane"
    /\ \E airplane_success \in BOOLEAN :
         /\ session_stats' =
               IF CountedSuccessful(call.test_mode, airplane_success)
               THEN [session_stats EXCEPT !.successful_cycles = @ + 1]
               ELSE [session_stats EXCEPT !.failed_cycles = @ + 1]
         /\ airplane' = IF call.test_mode THEN "none"
                        ELSE IF airplane_success THEN "ok" ELSE "failed"
    /\ UNCHANGED <<last_pkill, sleeps, interrupted>>
    /\ cycle_ret' = "True"
    /\ pc' = "cyc_finally"
    /\ UNCHANGED <<call, calls, running, now, cycle_number, summaries, interrupts>>
    /\ UNCHANGED browservars
    /\ UNCHANGED histvars
    /\ UNCHANGED notctl

\* lines 1008-1010
CycExcept ==
    /\ pc = "cyc_except"
    /\ session_stats' = [session_stats EXCEPT !.failed_cycles = @ + 1]
    /\ pc' = "cyc_cleanup"
    /\ UNCHANGED <<call, calls, running, now, cycle_number, cycle_ret,
                   summaries, interrupts>>
    /\ UNCHANGED browservars
    /\ UNCHANGED histvars
    /\ UNCHANGED obsvars
    /\ UNCHANGED notctl

\* lines 1012-1024
CycCleanup ==
    /\ pc = "cyc_cleanup"
    /\ IF create_new_browser /\ ai_browser # "None"
       THEN \E g \in CloseOutcomes(DriverOf(ai_browser)) : CloseRef(ai_browser, g)
       ELSE UNCHANGED <<own_driver, shared_driver, last_close, last_pkill>>
    /\ UNCHANGED <<airplane, sleeps, interrupted>>
    /\ cycle_ret' = "False"
    /\ pc' = "cyc_finally"
    /\ UNCHANGED <<call, calls, session_stats, running, now, cycle_number,
                   summaries, interrupts>>
    /\ UNCHANGED <<browser_instance, ai_browser>>
    /\ UNCHANGED histvars
    /\ UNCHANGED notctl

\* where single_ai_cycle returns to
AfterCycle ==
    IF call.kind = "repeat" THEN "rep_after"
    ELSE IF call.kind = "continuous" THEN "cont_after"
    ELSE "menu"

\* the cycle that ends is counted by what happened in it
CountOutcome(o, env, ret) ==
    [o EXCEPT !.ran = @ + 1,
              !.ok = IF ret = "True" THEN @ + 1 ELSE @,
              !.sim_false = IF ret = "False" /\ execute_ai_scenario(env) = "False"
                            THEN @ + 1 ELSE @,
              !.raised = IF ret = "False" /\ execute_ai_scenario(env) # "False"
                         THEN @ + 1 ELSE @,
              !.interrupted = IF ret = "KeyboardInterrupt" THEN @ + 1 ELSE @]

\* lines 1025-1026, and the return
CycFinally ==
    /\ pc = "cyc_finally"
    /\ session_stats' = [session_stats EXCEPT !.total_cycles = @ + 1]
    /\ outcomes' = CountOutcome(outcomes, exec_env, cycle_ret)
    /\ pc' = AfterCycle
    /\ airplane' = "none"
    /\ UNCHANGED <<last_pkill, sleeps, interrupted>>
    /\ UNCHANGED <<call, calls, running, now, cycle_number, cycle_ret,
                   summaries, interrupts>>
    /\ UNCHANGED browservars
    /\ UNCHANGED <<stats_before, stats_at_cycle, exec_env, stop_checked>>
    /\ UNCHANGED notctl

\* ---- the finally blocks of repeat_ai_cycles and continuous_ai_mode ----
\* the shared browser is closed if there is one; close_browser swallows its
\* own failures
FinallyCleanup(here, next) ==
    /\ pc = here
    /\ IF call.keep_browser_open /\ browser_instance
       THEN \E g \in CloseOutcomes(shared_driver) : CloseRef("shared", g)
       ELSE UNCHANGED <<own_driver, shared_driver, last_close, last_pkill>>
    /\ UNCHANGED <<airplane, sleeps, interrupted>>
    /\ pc' = next
    /\ UNCHANGED <<call, calls, session_stats, now, cycle_number, cycle_ret,
                   summaries, interrupts>>
    /\ UNCHANGED <<browser_instance, ai_browser>>
    /\ UNCHANGED histvars
    /\ UNCHANGED notctl

\* lines 1078-1093
RepFinally == FinallyCleanup("rep_finally", "rep_summary") /\ UNCHANGED running
\* lines 1147-1164
ContFinally == FinallyCleanup("cont_finally", "cont_summary") /\ running' = FALSE

\* print_session_summary, lines 1168-1185, called at line 1095 or 1166
PrintSummary ==
    /\ pc \in {"rep_summary", "cont_summary"}
    /\ summaries' = summaries + 1
    /\ pc' = "menu"
    /\ UNCHANGED <<call, calls, session_stats, running, now, cycle_number,
                   cycle_ret, interrupts>>
    /\ UNCHANGED browservars
    /\ UNCHANGED histvars
    /\ UNCHANGED obsvars
    /\ UNCHANGED notctl

\* ---- KeyboardInterrupt ----
\* the handler a KeyboardInterrupt raised outside a cycle reaches: "except
\* KeyboardInterrupt" of lines 1074 and 1143 from inside the try block, and
\* main's handler (lines 1483-1490), which ends the program, from a finally
\* block
OuterHandler ==
    IF call.kind = "repeat" /\ pc \notin FinallyPcs THEN "rep_finally"
    ELSE IF call.kind = "continuous" /\ pc \notin FinallyPcs THEN "cont_finally"
    ELSE "exited"

\* KeyboardInterrupt inside single_ai_cycle's try block: "except Exception"
\* does not catch it, the finally of line 1025 counts the cycle, and it
\* leaves single_ai_cycle with the browser as it is
InterruptCycle ==
    /\ pc \in {"cyc_create", "cyc_exec", "cyc_post", "cyc_airplane", "cyc_except"}
    /\ interrupts < MaxInterrupts
    /\ interrupts' = interrupts + 1
    /\ interrupted' = TRUE
    /\ session_stats' = [session_stats EXCEPT !.total_cycles = @ + 1]
    /\ outcomes' = CountOutcome(outcomes, exec_env, "KeyboardInterrupt")
    /\ cycle_ret' = "KeyboardInterrupt"
    /\ pc' = OuterHandler
    /\ UNCHANGED <<call, calls, running, now, cycle_number, summaries>>
    /\ UNCHANGED browservars
    /\ UNCHANGED <<stats_before, stats_at_cycle, exec_env, stop_checked>>
    /\ UNCHANGED <<airplane, last_pkill, sleeps>>
    /\ UNCHANGED notctl

\* KeyboardInterrupt inside execute_ai_scenario under one of the bare
\* "except:" clauses of perform_search and the exploration methods: it is
\* swallowed and the scenario goes on
InterruptSwallowed ==
    /\ pc = "cyc_exec"
    /\ interrupts < MaxInterrupts
    /\ interrupts' = interrupts + 1
    /\ interrupted' = TRUE
    /\ UNCHANGED <<pc, call, calls, session_stats, running, now, cycle_number,
                   cycle_ret, summaries>>
    /\ UNCHANGED browservars
    /\ UNCHANGED histvars
    /\ UNCHANGED <<airplane, last_pkill, sleeps>>
    /\ UNCHANGED notctl

\* KeyboardInterrupt in the cleanup of lines 1013-1016: the bare except of
\* line 1017 catches it and kills the browser processes; inside the finally
\* of line 1025, before the count: it leaves single_ai_cycle
InterruptCleanup ==
    /\ pc \in {"cyc_cleanup", "cyc_finally"}
    /\ interrupts < MaxInterrupts
    /\ interrupts' = interrupts + 1
    /\ interrupted' = TRUE
    /\ IF pc = "cyc_cleanup" /\ create_new_browser /\ ai_browser # "None"
       THEN /\ last_close' = "forced"
            /\ last_pkill' = TRUE
            /\ \E d \in {"None", "crashed"} :
                 /\ own_driver' = IF ai_browser = "own" /\ own_driver # "None"
                                  THEN d ELSE own_driver
                 /\ shared_driver' = IF ai_browser = "shared" /\ shared_driver # "None"
                                     THEN d ELSE shared_driver
            /\ cycle_ret' = "False"
            /\ pc' = "cyc_finally"
            /\ UNCHANGED outcomes
       ELSE /\ cycle_ret' = "KeyboardInterrupt"
            /\ outcomes' = CountOutcome(outcomes, exec_env, "KeyboardInterrupt")
            /\ pc' = OuterHandler
            /\ UNCHANGED <<own_driver, shared_driver, last_close, last_pkill>>
    /\ airplane' = "none"
    /\ UNCHANGED sleeps
    /\ UNCHANGED <<call, calls, session_stats, running, now, cycle_number, summaries>>
    /\ UNCHANGED <<browser_instance, ai_browser>>
    /\ UNCHANGED <<stats_before, stats_at_cycle, exec_env, stop_checked>>
    /\ UNCHANGED notctl

\* KeyboardInterrupt in repeat_ai_cycles or continuous_ai_mode outside a
\* cycle: in the try block it reaches "except KeyboardInterrupt" and then the
\* finally block; in the final cleanup, which sleeps at lines 1082 and 1085
\* (1153 and 1156) around close_browser, "except Exception" of line 1086
\* (1157) does not catch it and it leaves the method before line 1095 (1166)
InterruptLoop ==
    /\ \/ pc \in RepeatPcs \cup ContinuousPcs
       \/ /\ pc \in {"rep_finally", "cont_finally"}
          /\ call.keep_browser_open /\ browser_instance
    /\ interrupts < MaxInterrupts
    /\ interrupts' = interrupts + 1
    /\ interrupted' = TRUE
    /\ pc' = OuterHandler
    /\ running' = IF pc = "cont_finally" THEN FALSE ELSE running
    /\ UNCHANGED <<call, calls, session_stats, now, cycle_number, cycle_ret,
                   summaries>>
    /\ UNCHANGED browservars
    /\ UNCHANGED histvars
    /\ UNCHANGED <<airplane, last_pkill, sleeps>>
    /\ UNCHANGED notctl

Next ==
    \/ StartSingle
    \/ StartRepeat
    \/ StartContinuous
    \/ RepCreate
    \/ RepLoop
    \/ RepAfter
    \/ RepSleep
    \/ ContCreate
    \/ ContCheck
    \/ ContAfter
    \/ ContSleep
    \/ StopRequest
    \/ CycCreate
    \/ CycExec
    \/ CycPost
    \/ CycAirplane
    \/ CycExcept
    \/ CycCleanup
    \/ CycFinally
    \/ RepFinally
    \/ ContFinally
    \/ PrintSummary
    \/ InterruptCycle
    \/ InterruptSwallowed
    \/ InterruptCleanup
    \/ InterruptLoop

Spec == Init /\ [][Next]_vars

\* one controller used for several operations in a row, none interrupted
InitCalls ==
    /\ SimInitVars
    /\ BrowserInitVars
    /\ CtlInitVars
    /\ call_limit = MaxCallsSeq
    /\ TypeIdle
    /\ DevIdle
    /\ BatchIdle

CallsNext ==
    \/ StartSingle
    \/ StartRepeat
    \/ StartContinuous
    \/ RepCreate
    \/ RepLoop
    \/ RepAfter
    \/ RepSleep
    \/ ContCreate
    \/ ContCheck
    \/ ContAfter
    \/ ContSleep
    \/ StopRequest
    \/ CycCreate
    \/ CycExec
    \/ CycPost
    \/ CycAirplane
    \/ CycExcept
    \/ CycCleanup
    \/ CycFinally
    \/ RepFinally
    \/ ContFinally
    \/ PrintSummary

SpecCalls == InitCalls /\ [][CallsNext]_vars

\* ======================================================================
\* HumanLikeActions.human_type, key by key (SpecType)
\* ======================================================================
\* the texts of up to n characters out of "a", "b" and the space
RECURSIVE TextsUpTo(_)
TextsUpTo(n) ==
    IF n = 0 THEN { <<>> }
    ELSE LET shorter == TextsUpTo(n - 1)
         IN  shorter \cup { Append(t, c) : t \in { x \in shorter : Len(x) = n - 1 },
                                            c \in {"a", "b", " "} }

\* element.send_keys(key) on an input with the caret at its end
SendKeys(content, key) ==
    IF key = "BACKSPACE"
    THEN IF content = <<>> THEN content ELSE SubSeq(content, 1, Len(content) - 1)
    ELSE Append(content, key)

\* human_type(element, text) is called
TypeInit ==
    /\ ProgramInit
    /\ DevIdle
    /\ BatchIdle
    /\ type_pc = "clear"
    /\ type_text \in TextsUpTo(MaxTextLen)
    /\ type_idx = 0
    /\ field \in { <<>>, <<"q">>, <<"a", "b">> }
    /\ typos = 0

\* element.clear()
TypeClear ==
    /\ type_pc = "clear"
    /\ field' = <<>>
    /\ type_pc' = "char"
    /\ UNCHANGED <<type_text, type_idx, typos, progvars, devvars, batchvars>>

\* random.random() < 0.05: a wrong character is sent, here one of three of
\* the 26 of random.choice('abcdefghijklmnopqrstuvwxyz')
TypeWrong ==
    /\ type_pc = "char"
    /\ type_idx < Len(type_text)
    /\ \E r \in RandomDraws, wrong_char \in {"a", "q", "z"} :
          /\ Chance(r, TypoChance)
          /\ field' = SendKeys(field, wrong_char)
    /\ typos' = typos + 1
    /\ type_pc' = "backspace"
    /\ UNCHANGED <<type_text, type_idx, progvars, devvars, batchvars>>

\* element.send_keys(Keys.BACKSPACE) after the wrong character
TypeBackspace_skipped ==
    /\ type_pc = "backspace"
    /\ type_pc' = "right"
    /\ UNCHANGED <<type_text, type_idx, field, typos, progvars, devvars, batchvars>>
TypeBackspace ==
    /\ type_pc = "backspace"
    /\ field' = SendKeys(field, "BACKSPACE")
    /\ type_pc' = "right"
    /\ UNCHANGED <<type_text, type_idx, typos, progvars, devvars, batchvars>>

\* element.send_keys(char), after a typo or without one
TypeChar ==
    /\ \/ type_pc = "right"
       \/ /\ type_pc = "char"
          /\ type_idx < Len(type_text)
          /\ \E r \in RandomDraws : ~Chance(r, TypoChance)
    /\ field' = SendKeys(field, type_text[type_idx + 1])
    /\ type_idx' = type_idx + 1
    /\ type_pc' = "char"
    /\ UNCHANGED <<type_text, typos, progvars, devvars, batchvars>>

\* the for loop is exhausted
TypeReturn ==
    /\ type_pc = "char"
    /\ type_idx = Len(type_text)
    /\ type_pc' = "done"
    /\ UNCHANGED <<type_text, type_idx, field, typos, progvars, devvars, batchvars>>

TypeNext ==
    \/ TypeClear
    \/ TypeWrong
    \/ TypeBackspace
    \/ TypeChar
    \/ TypeReturn

SpecType == TypeInit /\ [][TypeNext]_vars

\* ======================================================================
\* AndroidAirplaneMode of src/b.py and src/c.py (SpecDevice)
\* ======================================================================
\* "device" in text: Python's substring test
Contains(sub, text) ==
    \E i \in 1..(Len(text) - Len(sub) + 1) : SubSeq(text, i, i + Len(sub) - 1) = sub

\* text.split(): the runs of non-whitespace characters, in order
RECURSIVE Split(_)
Split(text) ==
    IF text = <<>> THEN <<>>
    ELSE IF Head(text) \in {" ", "\t", "\n"} THEN Split(Tail(text))
    ELSE LET stop == IF \E i \in 1..Len(text) : text[i] \in {" ", "\t", "\n"}
                     THEN CHOOSE i \in 1..Len(text) :
                              /\ text[i] \in {" ", "\t", "\n"}
                              /\ \A j \in 1..(i - 1) : text[j] \notin {" ", "\t", "\n"}
                     ELSE Len(text) + 1
         IN  <<SubSeq(text, 1, stop - 1)>> \o Split(SubSeq(text, stop, Len(text)))

\* text.strip()
RECURSIVE Strip(_)
Strip(text) ==
    IF text = <<>> THEN <<>>
    ELSE IF Head(text) \in {" ", "\t", "\n"} THEN Strip(Tail(text))
    ELSE IF text[Len(text)] \in {" ", "\t", "\n"} THEN Strip(SubSeq(text, 1, Len(text) - 1))
    ELSE text

DeviceWord == <<"d", "e", "v", "i", "c", "e">>

\* what 'adb devices' prints on stdout: the header, one line per attached
\* device with its state, an empty line
DevicesListing(env) ==
    <<"L", "i", "s", "t", " ", "o", "f", " ">> \o DeviceWord
      \o <<"s", " ", "a", "t", "t", "a", "c", "h", "e", "d", "\n">>
      \o (IF env = "device" THEN <<"S", "1", "\t">> \o DeviceWord \o <<"\n">>
          ELSE IF env = "offline"
          THEN <<"S", "1", "\t", "o", "f", "f", "l", "i", "n", "e", "\n">>
          ELSE IF env = "unauthorized"
          THEN <<"S", "1", "\t", "u", "n", "a", "u", "t", "h", "o", "r", "i", "z",
                 "e", "d", "\n">>
          ELSE <<>>)
      \o <<"\n">>

\* how subprocess.run of an 'adb shell' command can go: FileNotFoundError
\* without adb, a non-zero exit status without a usable device
RunOutcomes(env) ==
    IF env = "no_adb" THEN {"raise"}
    ELSE IF env = "device" THEN {"ok", "fail"}
    ELSE {"fail"}

\* a method of src/b.py or src/c.py is called, in some environment
DevInit ==
    /\ ProgramInit
    /\ TypeIdle
    /\ BatchIdle
    /\ dev_pc = "called"
    /\ dev_call \in { c \in [script : {"b", "c"}, op : {"check", "toggle", "cycle"}] :
                         c.script = "c" => c.op # "toggle" }
    /\ dev_env \in {"no_adb", "none", "offline", "unauthorized", "device"}
    /\ airplane_on \in {"0", "1"}
    /\ dev_stdout = <<>>
    /\ dev_status = "unread"
    /\ dev_log = <<>>
    /\ dev_sets = <<>>
    /\ dev_ret = "none"

\* check_device_connection: the condition of the if
DeviceListed(script, stdout) ==
    IF script = "b"
    THEN Contains(DeviceWord, stdout)
    ELSE Contains(DeviceWord, stdout)
           /\ \E i \in 1..Len(Split(stdout)) : Split(stdout)[i] = DeviceWord

\* check_device_connection
DevCheck ==
    /\ dev_pc = "called"
    /\ dev_call.op = "check"
    /\ dev_log' = Append(dev_log, <<"devices">>)
    /\ IF dev_env = "no_adb"
       THEN /\ dev_ret' = "False"
            /\ UNCHANGED dev_stdout
       ELSE /\ dev_stdout' = DevicesListing(dev_env)
            /\ dev_ret' = IF DeviceListed(dev_call.script, dev_stdout')
                          THEN "True" ELSE "False"
    /\ dev_pc' = "returned"
    /\ UNCHANGED <<dev_call, dev_env, airplane_on, dev_status, dev_sets,
                   progvars, typevars, batchvars>>

\* get_airplane_mode_status of src/b.py, called by toggle_airplane_mode and
\* by airplane_mode_cycle
DevStatus ==
    /\ dev_pc = "called"
    /\ dev_call.script = "b"
    /\ dev_call.op \in {"toggle", "cycle"}
    /\ dev_log' = Append(dev_log, <<"get">>)
    /\ \E o \in RunOutcomes(dev_env) :
          /\ dev_stdout' = IF o = "ok" THEN <<airplane_on, "\n">> ELSE <<>>
          /\ dev_status' = IF o = "raise" THEN "None"
                           ELSE IF Strip(dev_stdout') = <<"1">> THEN "True"
                           ELSE "False"
    /\ dev_pc' = "status"
    /\ UNCHANGED <<dev_call, dev_env, airplane_on, dev_sets, dev_ret,
                   progvars, typevars, batchvars>>

\* set_airplane_mode(enable) whose two commands go as o1 and o2
set_airplane_mode(enable, o1, o2) ==
    /\ dev_log' = dev_log
          \o << <<"put", IF enable THEN "1" ELSE "0">> >>
          \o (IF o1 = "ok"
              THEN << <<"broadcast", IF enable THEN "true" ELSE "false">> >>
              ELSE <<>>)
    /\ airplane_on' = IF o1 = "ok" THEN (IF enable THEN "1" ELSE "0")
                      ELSE airplane_on
    /\ dev_sets' = Append(dev_sets, o1 = "ok" /\ o2 = "ok")

\* toggle_airplane_mode after the status was read
DevToggle ==
    /\ dev_pc = "status"
    /\ dev_call.op = "toggle"
    /\ IF dev_status = "None"
       THEN /\ dev_ret' = "False"
            /\ UNCHANGED <<dev_log, airplane_on, dev_sets>>
       ELSE \E o1, o2 \in RunOutcomes(dev_env) :
              /\ set_airplane_mode(dev_status = "False", o1, o2)
              /\ dev_ret' = IF o1 = "ok" /\ o2 = "ok" THEN "True" ELSE "False"
    /\ dev_pc' = "returned"
    /\ UNCHANGED <<dev_call, dev_env, dev_stdout, dev_status,
                   progvars, typevars, batchvars>>

\* airplane_mode_cycle: if self.set_airplane_mode(True)
DevEnable ==
    /\ dev_call.op = "cycle"
    /\ dev_pc = IF dev_call.script = "b" THEN "status" ELSE "called"
    /\ \E o1, o2 \in RunOutcomes(dev_env) :
          /\ set_airplane_mode(TRUE, o1, o2)
          /\ IF o1 = "ok" /\ o2 = "ok"
             THEN /\ dev_pc' = "sleep"
                  /\ UNCHANGED dev_ret
             ELSE /\ dev_pc' = "returned"
                  /\ dev_ret' = "False"
    /\ UNCHANGED <<dev_call, dev_env, dev_stdout, dev_status,
                   progvars, typevars, batchvars>>

\* airplane_mode_cycle: after the sleep, if self.set_airplane_mode(False)
DevDisable_returns_true ==
    /\ dev_pc = "sleep"
    /\ \E o1, o2 \in RunOutcomes(dev_env) :
          /\ set_airplane_mode(FALSE, o1, o2)
          /\ dev_ret' = "True"
    /\ dev_pc' = "returned"
    /\ UNCHANGED <<dev_call, dev_env, dev_stdout, dev_status,
                   progvars, typevars, batchvars>>
DevDisable ==
    /\ dev_pc = "sleep"
    /\ \E o1, o2 \in RunOutcomes(dev_env) :
          /\ set_airplane_mode(FALSE, o1, o2)
          /\ dev_ret' = IF o1 = "ok" /\ o2 = "ok" THEN "True" ELSE "False"
    /\ dev_pc' = "returned"
    /\ UNCHANGED <<dev_call, dev_env, dev_stdout, dev_status,
                   progvars, typevars, batchvars>>

DevNext ==
    \/ DevCheck
    \/ DevStatus
    \/ DevToggle
    \/ DevEnable
    \/ DevDisable

SpecDevice == DevInit /\ [][DevNext]_vars

\* ======================================================================
\* KoreanBlossomVision.batch_image_analysis of src/e.py (SpecBatch)
\* ======================================================================
\* batch_image_analysis(image_list, questions) is called: questions omitted,
\* or a list of any length up to the bound
BatchInit ==
    /\ ProgramInit
    /\ TypeIdle
    /\ DevIdle
    /\ batch_pc = "called"
    /\ image_list \in UNION { [1..n -> {"img_a", "img_b"}] : n \in 0..MaxBatch }
    /\ \/ questions_arg = [given |-> FALSE, list |-> <<>>]
       \/ \E l \in UNION { [1..n -> {"what", "where"}] : n \in 0..MaxBatch } :
             questions_arg = [given |-> TRUE, list |-> l]
    /\ questions = <<>>
    /\ results = <<>>

\* the two ifs before the loop: the default question for every image when
\* questions is None, a single question repeated for every image
BatchQuestions ==
    /\ batch_pc = "called"
    /\ LET n == Len(image_list)
           first == IF questions_arg.given THEN questions_arg.list
                    ELSE [i \in 1..n |-> "describe"]
       IN  questions' = IF Len(first) = 1 THEN [i \in 1..n |-> first[1]]
                        ELSE first
    /\ batch_pc' = "loop"
    /\ UNCHANGED <<image_list, questions_arg, results, progvars, typevars, devvars>>

\* zip(image_list, questions) stops with the shorter of the two
ZipLen(a, b) == IF Len(a) <= Len(b) THEN Len(a) ELSE Len(b)

\* one iteration of the loop: analyze_image returns or raises
BatchAnalyze ==
    /\ batch_pc = "loop"
    /\ Len(results) < ZipLen(image_list, questions)
    /\ LET i == Len(results) + 1
       IN  \E key \in {"analysis", "error"} :
             results' = Append(results, [image |-> image_list[i],
                                         question |-> questions[i],
                                         key |-> key])
    /\ UNCHANGED <<batch_pc, image_list, questions_arg, questions, progvars,
                   typevars, devvars>>

\* the zip is exhausted: return results
BatchReturn ==
    /\ batch_pc = "loop"
    /\ Len(results) = ZipLen(image_list, questions)
    /\ batch_pc' = "done"
    /\ UNCHANGED <<image_list, questions_arg, questions, results, progvars,
                   typevars, devvars>>

BatchNext ==
    \/ BatchQuestions
    \/ BatchAnalyze
    \/ BatchReturn

SpecBatch == BatchInit /\ [][BatchNext]_vars

\* ======================================================================
\* Properties
\* ======================================================================
Fresh ==
    /\ stats_before.total_cycles = 0
    /\ stats_before.successful_cycles = 0
    /\ stats_before.failed_cycles = 0

\* single_ai_cycle has returned to its caller
CycleReturned ==
    \/ pc \in {"rep_after", "cont_after"}
    \/ pc = "menu" /\ call.kind = "single"

\* repeat_ai_cycles has returned, without a KeyboardInterrupt, after its
\* shared browser (if asked for) was created
RepeatReturned ==
    /\ pc = "menu"
    /\ call.kind = "repeat"
    /\ interrupts = 0
    /\ call.keep_browser_open => browser_instance

\* C1: whenever no cycle is in progress (and no KeyboardInterrupt was
\* delivered), total_cycles = successful_cycles + failed_cycles.
C1_TotalIsSum ==
    (pc \notin CyclePcs /\ interrupts = 0) =>
        session_stats.total_cycles =
            session_stats.successful_cycles + session_stats.failed_cycles

\* C2: on a fresh controller, repeat_ai_cycles(n) in which the simulator
\* returns False on the cycles of F and True on the others ends with
\* total_cycles = n, successful_cycles = n - |F|, failed_cycles = |F|.
C2_RepeatCountsFailures ==
    (RepeatReturned /\ Fresh /\ outcomes.raised = 0) =>
        /\ session_stats.total_cycles = call.repeat_count
        /\ session_stats.successful_cycles = call.repeat_count - outcomes.sim_false
        /\ session_stats.failed_cycles = outcomes.sim_false

\* C3: on a fresh controller, repeat_ai_cycles(n) in which the simulator
\* succeeds on every cycle ends with total_cycles = n, successful_cycles = n
\* and failed_cycles = 0, in test mode and in non-test mode.
C3_RepeatAllSucceed ==
    (RepeatReturned /\ Fresh /\ outcomes.raised = 0 /\ outcomes.sim_false = 0) =>
        /\ session_stats.total_cycles = call.repeat_count
        /\ session_stats.successful_cycles = call.repeat_count
        /\ session_stats.failed_cycles = 0

C3_Witness ==
    /\ RepeatReturned /\ Fresh
    /\ ~call.test_mode
    /\ call.repeat_count = 3
    /\ outcomes.ok = 3
    /\ session_stats.successful_cycles = 3

\* C4: repeat_ai_cycles(0) performs no cycle and leaves every field of
\* session_stats as it was before the call.
C4_RepeatZeroFrame ==
    (pc = "menu" /\ call.kind = "repeat" /\ call.repeat_count = 0 /\ interrupts = 0) =>
        /\ outcomes.ran = 0
        /\ session_stats = stats_before

\* C5: in continuous_ai_mode, once the program has read the stop flag as
\* False no cycle runs and no inter-cycle sleep starts; a check that finds
\* the flag down never starts a cycle or a sleep; and while the flag is down
\* every step of the cycle in flight (other than a KeyboardInterrupt) keeps
\* the cycle going or ends it at its normal return, counted in total_cycles.
C5_StopFlagHonoured ==
    /\ [](stop_checked => pc \notin (CyclePcs \cup {"cont_sleep"}))
    /\ [][(call.kind = "continuous" /\ ~running /\ pc = "cont_check")
            => pc' # "cyc_create"]_vars
    /\ [][(call.kind = "continuous" /\ ~running /\ pc = "cont_after")
            => pc' # "cont_sleep"]_vars
    /\ [][(call.kind = "continuous" /\ ~running /\ pc \in CyclePcs
             /\ interrupts' = interrupts)
            => \/ pc' \in CyclePcs
               \/ /\ pc' = "cont_after"
                  /\ cycle_ret \in {"True", "False"}
                  /\ session_stats'.total_cycles = session_stats.total_cycles + 1]_vars

C5_Witness ==
    /\ call.kind = "continuous"
    /\ ~running
    /\ pc = "cont_after"
    /\ cycle_ret = "True"
    /\ ~stop_checked

\* C6: with click_probability = 0 and back_probability = 0 a run of
\* execute_scenario never clicks an element and never calls driver.back().
C6_NoClickNoBack ==
    (scenario # NoScenario /\ ClickProbability(scenario) = 0
                           /\ BackProbability(scenario) = 0) =>
        (clicks = 0 /\ backs = 0)

\* C7: for every failure of the text-generation call (no API key, request
\* exception, non-200 status, non-JSON body, undecodable reply text)
\* generate_browsing_scenario raises nothing and returns a preset of the
\* fallback table.
C7_GenerateFallsBack ==
    gen_outcome \in GenFailures =>
        (sim_result # "Exception" /\ scenario \in get_fallback_scenario)

C7_Witness ==
    /\ gen_outcome = "body_not_json"
    /\ sim_pc = "show"
    /\ scenario \in get_fallback_scenario

\* C8: every scenario handed to the simulator has click_probability and
\* back_probability within [0,1], reading_time >= 0 and at least one query.
C8_ScenarioWellFormed ==
    sim_pc = "show" =>
        /\ ClickProbability(scenario) \in 0..100
        /\ BackProbability(scenario) \in 0..100
        /\ ReadingTime(scenario) >= 0
        /\ SearchQueries(scenario) >= 1

\* C9: every invocation of repeat_ai_cycles or continuous_ai_mode, however it
\* ends, has printed the session summary exactly once.
C9_SummaryOnce ==
    (pc \in {"menu", "exited"} /\ call.kind \in {"repeat", "continuous"}) =>
        summaries = 1

\* C10: a cycle in which the browser session became unavailable during the
\* scenario is counted in failed_cycles, and the process keeps running.
C10_LostSessionCounted ==
    (CycleReturned /\ exec_env = "session_unavailable" /\ interrupts = 0) =>
        /\ session_stats.failed_cycles = stats_at_cycle.failed_cycles + 1
        /\ pc # "exited"

\* the steps C11 lists
ListedSteps ==
    {"nav", "body_wait", "find_input", "click_box", "type", "submit",
     "submit_button", "results_wait", "scroll", "result_click", "back"}

\* C11: whenever a step of the simulated interaction fails (navigation, body
\* wait, search-input lookup, search-box click, typing, submit by Enter or by
\* button, results wait, scroll, result click, back navigation),
\* execute_scenario returns False and raises nothing.
C11_StepFailureReturnsFalse ==
    (sim_pc = "done" /\ sim_interrupts = 0 /\ failed_step \in ListedSteps) =>
        sim_result = "False"

\* C12: in non-test mode a cycle whose browsing succeeded but whose
\* airplane_mode_cycle failed is counted as a success: single_ai_cycle
\* returns True, successful_cycles grows by one, failed_cycles is unchanged.
C12_FailedToggleCountsAsSuccess ==
    (pc = "cyc_finally" /\ ~call.test_mode /\ exec_env = "ok"
                        /\ airplane = "failed") =>
        /\ cycle_ret = "True"
        /\ session_stats.successful_cycles = stats_at_cycle.successful_cycles + 1
        /\ session_stats.failed_cycles = stats_at_cycle.failed_cycles

C12_Witness ==
    /\ pc = "cyc_finally"
    /\ ~call.test_mode
    /\ exec_env = "ok"
    /\ airplane = "failed"
    /\ cycle_ret = "True"

\* C13: closing a browser runs pkill only if the graceful close raised; a
\* graceful close that works is never followed by pkill.
C13_PkillOnlyAfterFailedClose ==
    last_pkill => last_close = "forced"

\* C14: a UI wait that fails (the body never appears, no search-input selector
\* resolves, the results page never arrives) ends at its timeout and
\* execute_scenario returns False.
C14_WaitsFailClosed ==
    /\ (sim_pc = "body_wait" => waited < BodyWaitTimeout)
    /\ (sim_pc = "find_input" => waited < SelectorWaitTimeout)
    /\ (sim_pc = "results_wait" => waited < ResultsWaitTimeout)
    /\ (sim_pc = "done" /\ sim_interrupts = 0 /\ own_driver = "live"
          /\ failed_step \in {"body_wait", "find_input", "results_wait"}) =>
            sim_result = "False"

\* C15 as stated: the per-step pause of human_scroll lies within
\* [600, 1200] ms for the slow profile and within [150, 300] ms for the fast
\* profile.
C15_StatedPauseRange ==
    (sim_pc = "scroll_loop" /\ scroll_steps > 0) =>
        /\ (ScrollBehavior(scenario) = "slow" => scroll_pause \in 600..1200)
        /\ (ScrollBehavior(scenario) = "fast" => scroll_pause \in 150..300)

\* C15 amended: the per-step pause of human_scroll lies within
\* [400, 1200] ms for the slow profile and within [100, 300] ms for the fast
\* profile.
C15_PauseRange ==
    (sim_pc = "scroll_loop" /\ scroll_steps > 0) =>
        /\ (ScrollBehavior(scenario) = "slow" => scroll_pause \in 400..1200)
        /\ (ScrollBehavior(scenario) = "fast" => scroll_pause \in 100..300)

C15_Witness ==
    /\ sim_pc = "scroll_loop"
    /\ scroll_steps > 0
    /\ ScrollBehavior(scenario) = "slow"
    /\ scroll_pause = 400

\* the run is in perform_additional_exploration (lines 675-686)
Exploring ==
    \/ sim_pc \in {"related_nav", "section_nav", "section_click", "random_nav"}
    \/ caller = "related"

SleepsDue ==
    IF pc \in {"rep_sleep", "rep_loop"} /\ cycle_number < call.repeat_count
    THEN cycle_number
    ELSE Max(cycle_number - 1, 0)

C18_SharedBrowserClosed ==
    (pc \in {"menu", "exited"} /\ call.kind \in {"repeat", "continuous"}
        /\ call.keep_browser_open /\ browser_instance) =>
            shared_driver = "None"

\* C19: a call made from a test-mode menu option never runs
\* airplane_mode_cycle.
C19_TestModeNoDeviceCommand ==
    call.menu_test => airplane = "none"

\* C20: after a KeyboardInterrupt delivered while repeat_ai_cycles or
\* continuous_ai_mode runs, no further cycle starts.
C20_InterruptStopsRun ==
    (call.kind \in {"repeat", "continuous"} /\ interrupted) => pc # "cyc_create"

\* C22: in human_scroll scroll_direction = 1 scrolls down and -1 scrolls up:
\* while scroll_direction is 1 every offset passed to scrollBy is positive,
\* while it is -1 every offset is negative.
C22_DirectionMatchesOffset ==
    (sim_pc = "scroll_loop" /\ scroll_steps > 0) =>
        /\ (scroll_direction = 1 => scroll_amount > 0)
        /\ (scroll_direction = -1 => scroll_amount < 0)

\* C26: perform_search returns True only if during that call a submit was
\* performed (Enter sent to the search box, or a search button found and
\* clicked), also when try_related_search calls it on a results page. It
\* returns True in the step that leaves the results wait without a failure.
C26_TrueOnlyAfterSubmit ==
    [][(sim_pc = "results_wait" /\ sim_pc' # "results_wait"
          /\ failed_step' # "results_wait"
          /\ sim_interrupts' = sim_interrupts) => submitted]_vars

\* C21: for every text and every choice of typos, the keys human_type sends
\* (clear, per character an optional wrong character followed by one
\* backspace, then the character) leave the input holding exactly the text:
\* between characters it holds the part of the text typed so far, and at the
\* end the whole text, in order.
C21_TypedTextArrives ==
    /\ type_pc = "char" => field = SubSeq(type_text, 1, type_idx)
    /\ type_pc = "done" => field = type_text

C21_Witness ==
    /\ type_pc = "done"
    /\ Len(type_text) = MaxTextLen
    /\ typos >= 2
    /\ field = type_text

\* C23: airplane_mode_cycle (src/c.py and src/b.py) returns True exactly when
\* set_airplane_mode(True) succeeded and the following
\* set_airplane_mode(False) succeeded; when enabling fails no disable
\* command is issued; and whenever it returns True the last command sent
\* switched airplane mode off.
C23_CycleReturn ==
    /\ dev_pc = "sleep" => dev_sets = <<TRUE>>
    /\ (dev_call.op = "cycle" /\ dev_pc = "returned") =>
          /\ dev_ret = "True" <=> dev_sets = <<TRUE, TRUE>>
          /\ dev_sets[1] = FALSE =>
                \A i \in 1..Len(dev_log) :
                    dev_log[i] \notin { <<"put", "0">>, <<"broadcast", "false">> }
          /\ dev_ret = "True" =>
                /\ dev_log[Len(dev_log)] = <<"broadcast", "false">>
                /\ dev_log[Len(dev_log) - 1] = <<"put", "0">>
                /\ airplane_on = "0"

C23_Witness ==
    /\ dev_call = [script |-> "b", op |-> "cycle"]
    /\ dev_pc = "returned"
    /\ dev_ret = "True"
    /\ Len(dev_log) = 5

\* C24: in src/b.py, when the airplane-mode state cannot be read from the
\* device (the status command fails or prints no value),
\* toggle_airplane_mode returns False and issues no set command.
C24_ToggleNeedsReadState ==
    (/\ dev_call.op = "toggle"
     /\ dev_pc = "returned"
     /\ Strip(dev_stdout) \notin { <<"0">>, <<"1">> }) =>
        /\ dev_ret = "False"
        /\ \A i \in 1..Len(dev_log) : dev_log[i][1] # "put"

\* C25: in src/b.py, check_device_connection returns True only when the
\* listing of 'adb devices' shows at least one attached device.
C25_TrueOnlyWithDevice ==
    (/\ dev_call = [script |-> "b", op |-> "check"]
     /\ dev_pc = "returned"
     /\ dev_ret = "True") =>
        dev_env \in {"offline", "unauthorized", "device"}

\* C29: batch_image_analysis returns exactly one result entry per input
\* image, in input order, whatever the questions argument: omitted, a single
\* question, or a list of any length.
C29_OneResultPerImage ==
    batch_pc = "done" =>
        /\ Len(results) = Len(image_list)
        /\ \A i \in 1..Len(results) : results[i].image = image_list[i]

\* C27: with keep-browser off and no KeyboardInterrupt, a browser that
\* single_ai_cycle created is open only inside that invocation, between its
\* creation and the close on the path taken (success, scenario reported
\* failure, exception caught): when the invocation returns, and when the
\* next one is entered, the driver reference is cleared and no other
\* browser exists, so at most one browser is open at any moment.
C27_OwnBrowserClosed ==
    (call.kind # "none" /\ ~call.keep_browser_open /\ interrupts = 0) =>
        /\ shared_driver = "None"
        /\ own_driver # "None" =>
              pc \in {"cyc_exec", "cyc_post", "cyc_except", "cyc_cleanup"}

C27_Witness ==
    /\ call.kind = "repeat"
    /\ ~call.keep_browser_open
    /\ interrupts = 0
    /\ pc = "rep_after"
    /\ outcomes.ok >= 1
    /\ outcomes.sim_false >= 1
    /\ outcomes.raised >= 1
    /\ own_driver = "None"

\* C28: over any sequence of single_ai_cycle, repeat_ai_cycles and
\* continuous_ai_mode calls on one controller, total_cycles,
\* successful_cycles and failed_cycles never decrease and are not reset when
\* a call starts; start_time is overwritten at the start of each repeat or
\* continuous call and only there; so the statistics a later call
\* summarises include the cycles of the earlier calls.
C28_CountersOnlyGrow ==
    [][/\ session_stats'.total_cycles >= session_stats.total_cycles
       /\ session_stats'.successful_cycles >= session_stats.successful_cycles
       /\ session_stats'.failed_cycles >= session_stats.failed_cycles
       /\ (pc = "menu" /\ pc' # "menu") =>
             /\ session_stats'.total_cycles = session_stats.total_cycles
             /\ session_stats'.successful_cycles = session_stats.successful_cycles
             /\ session_stats'.failed_cycles = session_stats.failed_cycles
             /\ stats_before' = session_stats
       /\ session_stats'.start_time # session_stats.start_time <=>
             (pc = "menu" /\ call'.kind \in {"repeat", "continuous"})
       /\ (pc = "menu" /\ call'.kind \in {"repeat", "continuous"}) =>
             session_stats'.start_time = now'
       /\ session_stats'.total_cycles >= stats_before'.total_cycles]_vars

C28_Witness ==
    /\ calls = 2
    /\ call.kind = "repeat"
    /\ summaries >= 1
    /\ stats_before.total_cycles >= 1
    /\ session_stats.total_cycles > stats_before.total_cycles
    /\ session_stats.start_time > stats_before.start_time

====
